---- MODULE Spec2Model ----
(***************************************************************************)
(* Model of MovieStreamingService                                          *)
(* (src/frontend/src/components/moviestreaming.ts, lines 1-808): chunked   *)
(* file transfer over an RTCDataChannel, reassembly, feeding of a          *)
(* MediaSource SourceBuffer, and master/follower playback synchronisation. *)
(*                                                                         *)
(* One service instance is modelled together with the environment that     *)
(* drives it: the application (setupDataChannel, shareMovie, cleanup), the  *)
(* data channels (open, message, close, error events), the timers and      *)
(* promises the service schedules, the MediaSource / SourceBuffer and the   *)
(* video element.  Every handler of the class is one action.                *)
(*                                                                         *)
(* Units: bytes are integers 0..255, base64 text is a sequence of alphabet *)
(* positions 0..63 with PAD for '=', times are integer milliseconds.        *)
(***************************************************************************)
EXTENDS Integers, Sequences, FiniteSets, TLC

\* ------------------------------------------------------------------ bounds

\* Chunk size used by the service specifications; the source's CHUNK_SIZE is
\* 16 * 1024 bytes, scaled down here so that files of a few bytes span chunks.
CHUNK_SIZE == 2
\* Largest chunk size SplitSpec draws.
MaxChunkSize == 3
\* Longest file (in bytes) SplitSpec draws.
MaxFileLen == 4
\* Length of the long file the sender specifications share.
LongFileLen == 3
\* Channels that can be created over the life of the service.
MaxChannels == 2
\* Calls the application makes to the public API (setupDataChannel,
\* shareMovie, cleanup) in one behaviour.
MaxApiCalls == 2
\* Envelopes delivered to the service in one behaviour.
MaxDeliveries == 4
\* Faults the environment injects (read failures, send failures, channel
\* error events, failing appends) in one behaviour.
MaxFaults == 1
\* Sync envelopes the broadcast interval sends in one behaviour.
MaxSyncs == 1
\* totalChunks of the short incoming transfer; incoming chunk indices range
\* over 0..ShortTotal, one past the last valid index.
ShortTotal == 2
\* totalChunks of the long incoming transfer, for which the first chunk does
\* not reach the buffering threshold.
LongTotal == 11
\* Chunk indices 0..MaxHeld-1 may be in the chunk map when the SourceBuffer
\* is created: more than one append's worth.
MaxHeld == 7

\* The sockets that connect to the matchmaking server, the join events and
\* the new-chat events the clients emit.
MaxSockets == 4
MaxJoins == 5
MaxNewChats == 1

\* ------------------------------------------------------- program constants

\* BUFFER_THRESHOLD = 0.10, as a percentage.
BUFFER_THRESHOLD_PCT == 10
\* SEEK_TOLERANCE = 1.0 s, in milliseconds.
SEEK_TOLERANCE_MS == 1000
\* bufferChunks collects at most this many chunks per append.
MAX_RUN == 5

\* ----------------------------------------------------------- pure helpers

NULL == 0
PAD == 64

Min(a, b) == IF a < b THEN a ELSE b
Max(a, b) == IF a > b THEN a ELSE b
Abs(a) == IF a < 0 THEN -a ELSE a

\* Math.ceil(a / b) for a >= 0, b > 0.
Ceil(a, b) == (a + b - 1) \div b

RECURSIVE Concat(_)
\* Concatenation of a sequence of byte sequences in index order.
Concat(chunks) ==
    IF chunks = <<>> THEN <<>> ELSE Head(chunks) \o Concat(Tail(chunks))

\* file.slice(start, end) with 0-based start (inclusive) and end (exclusive).
Slice(file, start, end) == SubSeq(file, start + 1, end)

\* Mutant of ChunkOf: the end of the range is not clipped to the file size
\* and stops one byte short.
ChunkOfShort(file, i, C) == Slice(file, i * C, Min(i * C + C, Len(file)) - 1)

\* The i-th chunk (0-based) of splitFileIntoChunks:
\*   start = i * CHUNK_SIZE; end = Math.min(start + CHUNK_SIZE, file.size).
ChunkOf(file, i, C) == Slice(file, i * C, Min(i * C + C, Len(file)))

\* this.totalChunks = Math.ceil(file.size / CHUNK_SIZE).
TotalChunksOf(file, C) == Ceil(Len(file), C)

RECURSIVE B64Encode(_)
\* arrayBufferToBase64: btoa of the bytes, three bytes to four characters,
\* the last group padded with '='.
B64Encode(b) ==
    IF Len(b) = 0 THEN <<>>
    ELSE IF Len(b) = 1 THEN
        << b[1] \div 4, (b[1] % 4) * 16, PAD, PAD >>
    ELSE IF Len(b) = 2 THEN
        << b[1] \div 4, (b[1] % 4) * 16 + (b[2] \div 16), (b[2] % 16) * 4, PAD >>
    ELSE
        << b[1] \div 4, (b[1] % 4) * 16 + (b[2] \div 16),
           (b[2] % 16) * 4 + (b[3] \div 64), b[3] % 64 >>
        \o B64Encode(SubSeq(b, 4, Len(b)))

\* atob, first step: when the length is a multiple of four, up to two
\* trailing '=' are removed.
B64Strip(s) ==
    IF Len(s) > 0 /\ Len(s) % 4 = 0 /\ s[Len(s)] = PAD
    THEN IF Len(s) > 1 /\ s[Len(s) - 1] = PAD
         THEN SubSeq(s, 1, Len(s) - 2)
         ELSE SubSeq(s, 1, Len(s) - 1)
    ELSE s

\* atob throws InvalidCharacterError on these inputs.
B64Invalid(s) ==
    LET t == B64Strip(s)
    IN  \/ Len(t) % 4 = 1
        \/ \E k \in 1..Len(t) : t[k] \notin 0..63

RECURSIVE B64Bytes(_)
\* atob, decoding of the stripped text: four characters to three bytes, a
\* final group of two or three characters to one or two bytes.
B64Bytes(t) ==
    IF Len(t) < 2 THEN <<>>
    ELSE IF Len(t) = 2 THEN << t[1] * 4 + (t[2] \div 16) >>
    ELSE IF Len(t) = 3 THEN
        << t[1] * 4 + (t[2] \div 16), (t[2] % 16) * 16 + (t[3] \div 4) >>
    ELSE
        << t[1] * 4 + (t[2] \div 16), (t[2] % 16) * 16 + (t[3] \div 4),
           (t[3] % 4) * 64 + t[4] >>
        \o B64Bytes(SubSeq(t, 5, Len(t)))

\* base64ToArrayBuffer, for text atob accepts.
B64Decode(s) == B64Bytes(B64Strip(s))

\* -------------------------------------------------------------- inputs

Channels == 1..MaxChannels

\* A File: name, bytes (file.size = Len(bytes)) and MIME type.
MkFile(name, bytes, type) == [name |-> name, bytes |-> bytes, type |-> type]
NoFile == MkFile("", <<>>, "")

\* The byte at 0-based offset k of the pattern files.
PatternByte(k) == (k * 37 + 11) % 256
PatternBytes(n) == [k \in 1..n |-> PatternByte(k - 1)]

\* Files the application shares in the service specifications: an empty
\* file and one spanning several chunks, the last of them partial.
Files ==
    { MkFile("empty", <<>>, "video/mp4"),
      MkFile("long", PatternBytes(LongFileLen), "video/mp4") }

RECURSIVE SeqsUpTo(_, _)
\* All sequences over S of length at most n.
SeqsUpTo(S, n) ==
    IF n = 0 THEN { <<>> }
    ELSE LET shorter == SeqsUpTo(S, n - 1)
         IN  shorter \cup { Append(q, x) : q \in shorter, x \in S }

\* Files SplitSpec draws: every byte string over two byte values up to
\* MaxFileLen bytes.
SplitFiles == { MkFile("f", b, "video/mp4") : b \in SeqsUpTo({7, 200}, MaxFileLen) }

ErrorKinds ==
    { "notInitialized",   \* shareMovie: 'Data channel not initialized'
      "notReady",         \* shareMovie: 'Data channel not ready'
      "processFailed",    \* shareMovie catch: 'Failed to process movie'
      "connectionLost",   \* sendNextChunk: 'Connection lost during transfer'
      "transferFailed",   \* sendNextChunk catch: 'Transfer failed at chunk'
      "channelError",     \* channel.onerror: 'Data channel connection error'
      "incomingFailed",   \* handleIncomingMessage catch
      "chunkFailed",      \* handleChunk catch: 'Failed to process chunk'
      "unsupported",      \* sourceopen catch: 'Unsupported video format'
      "decodeError",      \* sourceBuffer error event
      "appendFailed",     \* bufferChunks catch: 'Video buffering error'
      "playFailed" }      \* play() rejected: 'Failed to start video playback'

\* ---------------------------------------------------------------- state

VARIABLES
    \* data channels (environment): RTCDataChannel.readyState per channel
    \* ("none" = not created yet), queued close events, and whether
    \* peerConnection.ondatachannel is registered
    readyState, closeEvents, listening,
    \* MovieStreamingService fields
    dataChannel, isMaster,
    currentFile, fileChunks, sendingProgress, totalChunks, isSending,
    receivedChunks, expectedTotalChunks, receivingProgress, movieMetadata,
    mediaSource, sourceBuffer, isBuffering, playbackStarted, bufferedChunkIndex,
    syncInterval,
    \* the interval timers started by setInterval and not cleared
    intervals,
    \* continuations the service has scheduled: shareMovie activations
    \* suspended in 'await chunk.arrayBuffer()', pending
    \* setTimeout(sendNextChunk), pending settle timers of startSyncPlayback,
    \* pending video.play() promises
    shareCalls, sendTimers, playTimers, playPromises,
    \* decode sink (environment): readyState of the MediaSource attached to
    \* the video element, whether its SourceBuffer is updating, updateend
    \* events queued by buffers of detached MediaSources, and the chunk
    \* indices appended to the attached MediaSource
    msState, updating, staleEnds, appended,
    \* video element (environment): currentTime in ms and paused
    videoTime, videoPaused,
    \* configuration: CHUNK_SIZE
    chunkSize,
    \* observation: envelopes passed to dataChannel.send, onError calls per
    \* kind, onPlaybackReady calls, the outcome of the application's last
    \* call, counters that bound the environment, and the number of the
    \* transfer the sender is working on
    sent, errors, readyCount, lastCall, apiCalls, faults, delivered, xfer,
    \* observation: the transfer and chunk index at which sendNextChunk found
    \* the channel not open
    lost

chanVars == << readyState, closeEvents, listening >>
roleVars == << dataChannel, isMaster >>
sendVars == << currentFile, fileChunks, sendingProgress, totalChunks, isSending >>
schedVars == << shareCalls, sendTimers >>
recvVars == << receivedChunks, expectedTotalChunks, receivingProgress,
               movieMetadata, playbackStarted, bufferedChunkIndex >>
sinkVars == << mediaSource, sourceBuffer, isBuffering, msState, updating,
               staleEnds, appended >>
syncVars == << syncInterval, intervals, playTimers, playPromises >>
videoVars == << videoTime, videoPaused >>
obsVars == << sent, errors, readyCount, lastCall, apiCalls, faults, delivered,
             xfer, lost >>

clientVars == << chanVars, roleVars, sendVars, schedVars, recvVars, sinkVars,
                 syncVars, videoVars, chunkSize, obsVars >>

\* The matchmaking server (index.ts, UserManager, RoomManager).
VARIABLES
    \* connections (environment): "none", "open" or "closed" per socket id
    conn,
    \* UserManager fields: the users (by socket id, in the order of the
    \* pushes) and the waiting queue
    users, queue,
    \* RoomManager: the rooms (room id, user1, user2) and the id counter
    rooms, GLOBAL_ROOM_ID,
    \* pending setTimeout(() => this.clearQueue(), 500) callbacks
    clearTimers,
    \* initHandlers calls per socket: the listeners registered per event
    handlers,
    \* observation: the socket.emit calls of the last event handled, and the
    \* counters that bound the clients' events
    emitted, joins, newChats

serverVars == << conn, users, queue, rooms, GLOBAL_ROOM_ID, clearTimers,
                 handlers, emitted, joins, newChats >>

vars == << clientVars, serverVars >>

Sockets == 1..MaxSockets

\* The server after 'new UserManager()': no connection, nobody waiting.
ServerInit ==
    /\ conn = [s \in Sockets |-> "none"]
    /\ users = <<>>
    /\ queue = <<>>
    /\ rooms = {}
    /\ GLOBAL_ROOM_ID = 1
    /\ clearTimers = 0
    /\ handlers = [s \in Sockets |-> 0]
    /\ emitted = <<>>
    /\ joins = 0
    /\ newChats = 0

NoMeta == [fileName |-> "", fileSize |-> 0, fileType |-> ""]

\* The fields as the field initialisers leave them, with nothing scheduled
\* and nothing observed yet.
Fresh ==
    /\ closeEvents = {}
    /\ currentFile = NoFile
    /\ fileChunks = <<>>
    /\ sendingProgress = 0
    /\ totalChunks = 0
    /\ isSending = FALSE
    /\ receivedChunks = <<>>
    /\ expectedTotalChunks = 0
    /\ receivingProgress = 0
    /\ movieMetadata = NoMeta
    /\ mediaSource = FALSE
    /\ sourceBuffer = FALSE
    /\ isBuffering = FALSE
    /\ playbackStarted = FALSE
    /\ bufferedChunkIndex = 0
    /\ syncInterval = FALSE
    /\ intervals = 0
    /\ shareCalls = {}
    /\ sendTimers = 0
    /\ playTimers = 0
    /\ playPromises = 0
    /\ msState = "none"
    /\ updating = FALSE
    /\ staleEnds = 0
    /\ appended = <<>>
    /\ sent = <<>>
    /\ errors = [k \in ErrorKinds |-> 0]
    /\ readyCount = 0
    /\ lastCall = "none"
    /\ apiCalls = 0
    /\ delivered = 0
    /\ faults = 0
    /\ xfer = 0
    /\ lost = {}
    /\ ServerInit

\* The service after construction: no channel, a paused video at time 0.
Init ==
    /\ Fresh
    /\ listening = FALSE
    /\ readyState = [c \in Channels |-> "none"]
    /\ dataChannel = NULL
    /\ isMaster = FALSE
    /\ videoTime = 0
    /\ videoPaused = TRUE
    /\ chunkSize = CHUNK_SIZE

\* The service after setupDataChannel and the channel's open event, in the
\* role given: the initiator is the master and holds the channel it
\* created, the responder holds the channel ondatachannel delivered.
Connected(master) ==
    /\ Fresh
    /\ listening = ~master
    /\ readyState = [c \in Channels |-> IF c = 1 THEN "open" ELSE "none"]
    /\ dataChannel = 1
    /\ isMaster = master

\* this.onError?.(...)
OnError(errs, kind) == [errs EXCEPT ![kind] = @ + 1]

\* The channel test of shareMovie, sendNextChunk and sendMessage:
\* this.dataChannel && this.dataChannel.readyState === 'open'.
ChannelOpenNow == dataChannel # NULL /\ readyState[dataChannel] = "open"

\* ------------------------------------------------------------- envelopes

MetadataMsg(total, meta) ==
    [type |-> "metadata", totalChunks |-> total, metadata |-> meta]
ChunkMsg(index, total, data) ==
    [type |-> "chunk", chunkIndex |-> index, totalChunks |-> total, data |-> data]
SyncMsg(time, paused, stamp) ==
    [type |-> "sync",
     syncData |-> [currentTime |-> time, paused |-> paused, timestamp |-> stamp]]

\* An entry of the log of dataChannel.send calls: the envelope, the channel
\* and the transfer the sender was working on.
Sent(msg, x) == [msg |-> msg, chan |-> dataChannel, xfer |-> x]

\* One more call of the public API, or one more injected fault.
ApiCall == apiCalls < MaxApiCalls /\ apiCalls' = apiCalls + 1
Fault == faults < MaxFaults /\ faults' = faults + 1

\* ----------------------------------------------------------- the channel

\* setupDataChannel(peerConnection, true): createDataChannel, isMaster = true,
\* handlers attached.
SetupInitiator ==
    /\ UNCHANGED serverVars
    /\ ApiCall
    /\ \E c \in Channels :
        /\ readyState[c] = "none"
        /\ \A d \in Channels : d < c => readyState[d] # "none"
        /\ readyState' = [readyState EXCEPT ![c] = "connecting"]
        /\ dataChannel' = c
    /\ isMaster' = TRUE
    /\ lastCall' = "setup"
    /\ UNCHANGED << closeEvents, listening, sendVars, schedVars, recvVars,
                    sinkVars, syncVars, videoVars, chunkSize, sent, errors,
                    readyCount, faults, delivered, xfer, lost >>

\* setupDataChannel(peerConnection, false): registers ondatachannel.
SetupResponder ==
    /\ UNCHANGED serverVars
    /\ ApiCall
    /\ listening' = TRUE
    /\ lastCall' = "setup"
    /\ UNCHANGED << readyState, closeEvents, roleVars, sendVars, schedVars,
                    recvVars, sinkVars, syncVars, videoVars, chunkSize, sent,
                    errors, readyCount, faults, delivered, xfer, lost >>

\* peerConnection.ondatachannel: the remote peer created a channel.
OnDataChannel ==
    /\ UNCHANGED serverVars
    /\ listening
    /\ \E c \in Channels :
        /\ readyState[c] = "none"
        /\ \A d \in Channels : d < c => readyState[d] # "none"
        /\ readyState' = [readyState EXCEPT ![c] = "connecting"]
        /\ dataChannel' = c
    /\ isMaster' = FALSE
    /\ UNCHANGED lastCall
    /\ UNCHANGED << closeEvents, listening, sendVars, schedVars, recvVars,
                    sinkVars, syncVars, videoVars, chunkSize, sent, errors,
                    readyCount, apiCalls, faults, delivered, xfer, lost >>

\* channel.onopen: a status update only.
OnOpen(c) ==
    /\ UNCHANGED serverVars
    /\ readyState[c] = "connecting"
    /\ readyState' = [readyState EXCEPT ![c] = "open"]
    /\ UNCHANGED lastCall
    /\ UNCHANGED << closeEvents, listening, roleVars, sendVars, schedVars,
                    recvVars, sinkVars, syncVars, videoVars, chunkSize, sent,
                    errors, readyCount, apiCalls, faults, delivered, xfer, lost >>

\* The transport or the remote peer closes channel c: readyState becomes
\* 'closed' at once, the close event is queued.
ChannelCloses(c) ==
    /\ UNCHANGED serverVars
    /\ readyState[c] \in { "connecting", "open" }
    /\ readyState' = [readyState EXCEPT ![c] = "closed"]
    /\ closeEvents' = closeEvents \cup { c }
    /\ UNCHANGED lastCall
    /\ UNCHANGED << listening, roleVars, sendVars, schedVars, recvVars,
                    sinkVars, syncVars, videoVars, chunkSize, sent, errors,
                    readyCount, apiCalls, faults, delivered, xfer, lost >>

\* channel.onerror: the error callback; the channel closes after an error.
OnChannelError(c) ==
    /\ UNCHANGED serverVars
    /\ Fault
    /\ readyState[c] \in { "connecting", "open" }
    /\ readyState' = [readyState EXCEPT ![c] = "closed"]
    /\ closeEvents' = closeEvents \cup { c }
    /\ errors' = OnError(errors, "channelError")
    /\ UNCHANGED lastCall
    /\ UNCHANGED << listening, roleVars, sendVars, schedVars, recvVars,
                    sinkVars, syncVars, videoVars, chunkSize, sent,
                    readyCount, apiCalls, delivered, xfer, lost >>

\* Mutant of ChannelAfterCleanup: cleanup keeps the channel reference.
ChannelAfterCleanupKept == dataChannel

\* this.dataChannel = null, the last assignment of cleanup().
ChannelAfterCleanup == NULL

\* cleanup(), given the close events still queued when it runs.  The
\* interval is cleared, cleanupMediaSource ends the stream of an open
\* MediaSource (endOfStream throws while the buffer is updating; the
\* exception is caught) and drops the SourceBuffer, the maps, lists, flags
\* and cursors are reset, the channel is closed and forgotten.
CleanupBody(queued) ==
    /\ syncInterval' = FALSE
    /\ intervals' = IF syncInterval THEN intervals - 1 ELSE intervals
    /\ msState' = IF mediaSource /\ msState = "open" /\ ~updating
                  THEN "ended" ELSE msState
    /\ sourceBuffer' = FALSE
    /\ mediaSource' = FALSE
    /\ receivedChunks' = <<>>
    /\ fileChunks' = <<>>
    /\ currentFile' = NoFile
    /\ isSending' = FALSE
    /\ playbackStarted' = FALSE
    /\ bufferedChunkIndex' = 0
    /\ sendingProgress' = 0
    /\ receivingProgress' = 0
    /\ IF dataChannel # NULL /\ readyState[dataChannel] \in { "connecting", "open" }
       THEN /\ readyState' = [readyState EXCEPT ![dataChannel] = "closed"]
            /\ closeEvents' = queued \cup { dataChannel }
       ELSE /\ readyState' = readyState
            /\ closeEvents' = queued
    /\ dataChannel' = ChannelAfterCleanup
    /\ UNCHANGED << listening, isMaster, totalChunks, schedVars,
                    expectedTotalChunks, movieMetadata, isBuffering, updating,
                    staleEnds, appended, playTimers, playPromises, videoVars,
                    chunkSize, sent, errors, readyCount, faults, delivered,
                    xfer, lost >>

\* The application calls cleanup().
Cleanup ==
    /\ UNCHANGED serverVars
    /\ ApiCall
    /\ CleanupBody(closeEvents)
    /\ lastCall' = "cleanup"

\* channel.onclose of channel c: a status update, then cleanup().
OnClose(c) ==
    /\ UNCHANGED serverVars
    /\ c \in closeEvents
    /\ CleanupBody(closeEvents \ { c })
    /\ UNCHANGED lastCall
    /\ UNCHANGED apiCalls

\* ------------------------------------------------------------ the sender

MetadataOf(file) ==
    [fileName |-> file.name, fileSize |-> Len(file.bytes), fileType |-> file.type]

\* The tail of shareMovie after 'await this.splitFileIntoChunks(file)': the
\* metadata envelope is built from the file and this.totalChunks and passed
\* to sendMessage, and the first sendNextChunk is scheduled.  sendMessage
\* throws when the channel is absent or not open, and dataChannel.send may
\* throw; the catch block reports and resets isSending and sendingProgress.
\* total, sending and progress are the values of this.totalChunks,
\* this.isSending and this.sendingProgress when the tail starts.
ShareMovieTail(file, x, total, sending, progress) ==
    \/ /\ ChannelOpenNow
       /\ sent' = Append(sent, Sent(MetadataMsg(total, MetadataOf(file)), x))
       /\ sendTimers' = sendTimers + 1
       /\ isSending' = sending
       /\ sendingProgress' = progress
       /\ UNCHANGED << errors, faults >>
    \/ /\ IF ChannelOpenNow THEN Fault ELSE UNCHANGED faults
       /\ errors' = OnError(errors, "processFailed")
       /\ isSending' = FALSE
       /\ sendingProgress' = 0
       /\ UNCHANGED << sent, sendTimers >>

\* Mutant of TransferBusy: the test for a transfer in progress is missing.
TransferBusyNever(sending) == FALSE

\* if (this.isSending) { ...; return; }
TransferBusy(sending) == sending

\* shareMovie(file), up to its first suspension.  The three rejections
\* return before any field is written.  Otherwise currentFile, isSending and
\* sendingProgress are set and splitFileIntoChunks starts: fileChunks = [],
\* totalChunks = ceil(size / CHUNK_SIZE); with no chunk to read the call runs
\* on to its tail, else it suspends in the first 'await chunk.arrayBuffer()'.
ShareMovie(file) ==
    /\ UNCHANGED serverVars
    /\ ApiCall
    /\ UNCHANGED << chanVars, roleVars, recvVars, sinkVars, syncVars,
                    videoVars, chunkSize, readyCount, delivered >>
    /\ IF dataChannel = NULL THEN
            /\ errors' = OnError(errors, "notInitialized")
            /\ lastCall' = "notInitialized"
            /\ UNCHANGED << sendVars, schedVars, sent, faults, xfer, lost >>
       ELSE IF readyState[dataChannel] # "open" THEN
            /\ errors' = OnError(errors, "notReady")
            /\ lastCall' = "notReady"
            /\ UNCHANGED << sendVars, schedVars, sent, faults, xfer, lost >>
       ELSE IF TransferBusy(isSending) THEN
            /\ lastCall' = "busy"
            /\ UNCHANGED << sendVars, schedVars, sent, errors, faults, xfer, lost >>
       ELSE
            /\ lastCall' = "accepted"
            /\ xfer' = xfer + 1
            /\ UNCHANGED lost
            /\ currentFile' = file
            /\ fileChunks' = <<>>
            /\ totalChunks' = TotalChunksOf(file.bytes, chunkSize)
            /\ IF totalChunks' = 0
               THEN /\ ShareMovieTail(file, xfer', totalChunks', TRUE, 0)
                    /\ UNCHANGED shareCalls
               ELSE /\ isSending' = TRUE
                    /\ sendingProgress' = 0
                    /\ shareCalls' = shareCalls \cup
                            { [xfer |-> xfer', file |-> file, i |-> 0] }
                    /\ UNCHANGED << sendTimers, sent, errors, faults >>

\* A suspended shareMovie resumes: chunk.arrayBuffer() of chunk a.i resolved.
\* The chunk is pushed to this.fileChunks, the loop tests i + 1 against
\* this.totalChunks and either suspends on the next chunk or returns, in
\* which case shareMovie runs on to its tail.
SplitStep(a) ==
    /\ UNCHANGED serverVars
    /\ a \in shareCalls
    /\ fileChunks' = Append(fileChunks, ChunkOf(a.file.bytes, a.i, chunkSize))
    /\ UNCHANGED lastCall
    /\ UNCHANGED << chanVars, roleVars, currentFile, totalChunks, recvVars,
                    sinkVars, syncVars, videoVars, chunkSize, readyCount,
                    apiCalls, delivered, xfer, lost >>
    /\ IF a.i + 1 < totalChunks
       THEN /\ shareCalls' = (shareCalls \ { a }) \cup { [a EXCEPT !.i = a.i + 1] }
            /\ UNCHANGED << sendingProgress, isSending, sendTimers, sent,
                            errors, faults >>
       ELSE /\ shareCalls' = shareCalls \ { a }
            /\ ShareMovieTail(a.file, a.xfer, totalChunks, isSending, sendingProgress)

\* A suspended shareMovie resumes with chunk.arrayBuffer() rejected: the
\* exception leaves splitFileIntoChunks and reaches shareMovie's catch.
SplitFails(a) ==
    /\ UNCHANGED serverVars
    /\ a \in shareCalls
    /\ Fault
    /\ shareCalls' = shareCalls \ { a }
    /\ errors' = OnError(errors, "processFailed")
    /\ isSending' = FALSE
    /\ sendingProgress' = 0
    /\ UNCHANGED lastCall
    /\ UNCHANGED << chanVars, roleVars, currentFile, fileChunks, totalChunks,
                    sendTimers, recvVars, sinkVars, syncVars, videoVars,
                    chunkSize, sent, readyCount, apiCalls, delivered, xfer, lost >>

\* Mutant of PlayTimersAfterStart: the follower schedules the settle timer
\* as well.
PlayTimersAfterStartAnyRole == playTimers + 1

\* startSyncPlayback(): the master schedules the settle timer; the follower
\* only logs.  (this.videoElement is set by the constructor and never
\* cleared.)
PlayTimersAfterStart == IF isMaster THEN playTimers + 1 ELSE playTimers

\* Mutant of ProgressAfterSend: the cursor is not advanced.
ProgressAfterSendStuck == sendingProgress

\* this.sendingProgress++, after the chunk was passed to sendMessage.
ProgressAfterSend == sendingProgress + 1

\* Mutant of ConnectionLost: the loss is not reported.
ConnectionLostSilent(errs) == errs

\* this.onError?.('Connection lost during transfer')
ConnectionLost(errs) == OnError(errs, "connectionLost")

\* A setTimeout(sendNextChunk) fires.
SendNextChunk ==
    /\ UNCHANGED serverVars
    /\ sendTimers > 0
    /\ UNCHANGED << chanVars, roleVars, currentFile, fileChunks, totalChunks,
                    shareCalls, recvVars, sinkVars, syncInterval, intervals,
                    playPromises,
                    videoVars, chunkSize, readyCount, apiCalls, delivered, xfer >>
    /\ IF ~isSending THEN
            \* stopped by cleanup or by an error
            /\ sendTimers' = sendTimers - 1
            /\ UNCHANGED lastCall
            /\ UNCHANGED << sendingProgress, isSending, playTimers, sent,
                            errors, faults, lost >>
       ELSE IF sendingProgress >= totalChunks THEN
            \* all chunks sent: the transfer is complete
            /\ sendTimers' = sendTimers - 1
            /\ isSending' = FALSE
            /\ playTimers' = PlayTimersAfterStart
            /\ UNCHANGED lastCall
            /\ UNCHANGED << sendingProgress, sent, errors, faults, lost >>
       ELSE IF ~ChannelOpenNow THEN
            /\ sendTimers' = sendTimers - 1
            /\ errors' = ConnectionLost(errors)
            /\ lost' = lost \cup { [xfer |-> xfer, index |-> sendingProgress] }
            /\ isSending' = FALSE
            /\ UNCHANGED lastCall
            /\ UNCHANGED << sendingProgress, playTimers, sent, faults >>
       ELSE
            \/ \* the chunk is encoded and sent, the next call is scheduled
               /\ sendingProgress < Len(fileChunks)
               /\ sent' = Append(sent,
                       Sent(ChunkMsg(sendingProgress, totalChunks,
                                     B64Encode(fileChunks[sendingProgress + 1])),
                            xfer))
               /\ sendingProgress' = ProgressAfterSend
               /\ sendTimers' = sendTimers
               /\ UNCHANGED lastCall
               /\ UNCHANGED << isSending, playTimers, errors, faults, lost >>
            \/ \* fileChunks[sendingProgress] is undefined (byteLength of
               \* undefined throws) or dataChannel.send throws: the catch
               /\ IF sendingProgress < Len(fileChunks)
                  THEN Fault ELSE UNCHANGED faults
               /\ sendTimers' = sendTimers - 1
               /\ errors' = OnError(errors, "transferFailed")
               /\ isSending' = FALSE
               /\ UNCHANGED lastCall
               /\ UNCHANGED << sendingProgress, playTimers, sent, lost >>

\* ------------------------------------------------- the master's playback

\* The settle timer of startSyncPlayback fires: videoElement.play() is
\* called, which clears paused and returns a promise.
PlayTimerFires ==
    /\ UNCHANGED serverVars
    /\ playTimers > 0
    /\ playTimers' = playTimers - 1
    /\ playPromises' = playPromises + 1
    /\ videoPaused' = FALSE
    /\ UNCHANGED lastCall
    /\ UNCHANGED << chanVars, roleVars, sendVars, schedVars, recvVars, sinkVars,
                    syncInterval, intervals, videoTime, chunkSize, sent, errors,
                    readyCount, apiCalls, faults, delivered, xfer, lost >>

\* startSyncBroadcast(): nothing for a follower or while an interval is held;
\* otherwise the interval is created.
\* Mutant of BroadcastSkipped: an interval already held is not tested.
BroadcastSkippedRoleOnly == ~isMaster

\* if (!this.isMaster || this.syncInterval) return;
BroadcastSkipped == ~isMaster \/ syncInterval

\* this.syncInterval after startSyncBroadcast().
StartSyncBroadcast == IF BroadcastSkipped THEN syncInterval ELSE TRUE

\* The number of interval timers running after startSyncBroadcast():
\* setInterval starts one more.
IntervalsAfterStart == IF BroadcastSkipped THEN intervals ELSE intervals + 1

\* The play() promise resolves: startSyncBroadcast().
PlayResolves ==
    /\ UNCHANGED serverVars
    /\ playPromises > 0
    /\ playPromises' = playPromises - 1
    /\ syncInterval' = StartSyncBroadcast
    /\ intervals' = IntervalsAfterStart
    /\ UNCHANGED lastCall
    /\ UNCHANGED << chanVars, roleVars, sendVars, schedVars, recvVars, sinkVars,
                    playTimers, videoVars, chunkSize, sent, errors, readyCount,
                    apiCalls, faults, delivered, xfer, lost >>

\* The play() promise rejects: the video stays paused, the error callback.
PlayRejects ==
    /\ UNCHANGED serverVars
    /\ playPromises > 0
    /\ playPromises' = playPromises - 1
    /\ videoPaused' = TRUE
    /\ errors' = OnError(errors, "playFailed")
    /\ UNCHANGED lastCall
    /\ UNCHANGED << chanVars, roleVars, sendVars, schedVars, recvVars, sinkVars,
                    syncInterval, intervals, playTimers, videoTime, chunkSize, sent,
                    readyCount, apiCalls, faults, delivered, xfer, lost >>

SyncsSent == Cardinality({ k \in 1..Len(sent) : sent[k].msg.type = "sync" })

\* The broadcast interval fires at wall-clock time now: skipped while the
\* channel is absent or not open; otherwise a sample of the video element
\* is sent (an exception of sendMessage is caught and logged).
SyncTick(now) ==
    /\ UNCHANGED serverVars
    /\ syncInterval
    /\ SyncsSent < MaxSyncs
    /\ IF ~ChannelOpenNow
       THEN /\ UNCHANGED lastCall
            /\ UNCHANGED << sent, faults >>
       ELSE \/ /\ sent' = Append(sent, Sent(SyncMsg(videoTime, videoPaused, now), 0))
               /\ UNCHANGED lastCall
               /\ UNCHANGED faults
            \/ /\ Fault
               /\ UNCHANGED lastCall
               /\ UNCHANGED sent
    /\ UNCHANGED << chanVars, roleVars, sendVars, schedVars, recvVars, sinkVars,
                    syncVars, videoVars, chunkSize, errors, readyCount,
                    apiCalls, delivered, xfer, lost >>

\* ---------------------------------------------------------- the receiver

\* Mutant of MapSet: an index already present keeps its first bytes.
MapSetKeepFirst(map, index, bytes) ==
    [k \in (DOMAIN map) \cup { index } |->
        IF k \in DOMAIN map THEN map[k] ELSE bytes]

\* Map.set(index, bytes) on receivedChunks, a function from the indices
\* received to their bytes.
MapSet(map, index, bytes) ==
    [k \in (DOMAIN map) \cup { index } |-> IF k = index THEN bytes ELSE map[k]]

RECURSIVE RunLengthUncapped(_, _, _)
\* Mutant of RunLength: the loop collects every consecutive chunk.
RunLengthUncapped(map, from, n) ==
    IF (from + n) \in DOMAIN map
    THEN RunLengthUncapped(map, from, n + 1)
    ELSE n

RECURSIVE RunLength(_, _, _)
\* The loop of bufferChunks: the number of chunks collected starting at
\* index from, given n collected so far:
\*   while (chunksToAppend.length < 5 && this.receivedChunks.has(currentIndex))
RunLength(map, from, n) ==
    IF n < MAX_RUN /\ (from + n) \in DOMAIN map
    THEN RunLength(map, from, n + 1)
    ELSE n

\* checkPlaybackReadiness(): whether onPlaybackReady is called, given
\* playbackStarted, receivingProgress and expectedTotalChunks:
\*   if (this.playbackStarted || !this.expectedTotalChunks) return;
\*   if (receivingProgress / expectedTotalChunks >= BUFFER_THRESHOLD) ...
BecomesReady(started, progress, expected) ==
    /\ ~started
    /\ expected # 0
    /\ progress * 100 >= BUFFER_THRESHOLD_PCT * expected

\* Mutant of CursorAfter: the cursor steps over one more index than was
\* collected.
CursorAfterSkipping(n) == bufferedChunkIndex + n + 1

\* this.bufferedChunkIndex = currentIndex, after n chunks were collected
\* starting at the cursor.
CursorAfter(n) == bufferedChunkIndex + n

\* Mutant of CursorAfterFailure: the cursor advances although appendBuffer
\* threw.
CursorAfterFailureAdvanced(n) == bufferedChunkIndex + n

\* appendBuffer threw with n chunks collected: the assignment of the cursor,
\* which follows the call, is not reached.
CursorAfterFailure(n) == bufferedChunkIndex

\* Mutant of FeederBusy: bufferChunks does not test isBuffering.
FeederBusyNever(buffering) == FALSE

\* The back-pressure test of bufferChunks: this.isBuffering.
FeederBusy(buffering) == buffering

\* bufferChunks(), given the chunk map, isBuffering, whether the
\* SourceBuffer of the attached MediaSource is updating and the error
\* counts at the time of the call.  Nothing happens without a SourceBuffer,
\* while isBuffering, or without a chunk at the cursor.  Otherwise the run
\* is appended: appendBuffer throws while the buffer is updating, and may
\* throw for reasons of the sink (quota); the catch clears isBuffering and
\* reports, leaving the cursor where it was.
BufferChunks(map, buffering, sinkUpdating, errs) ==
    LET n == RunLength(map, bufferedChunkIndex, 0)
        run == [k \in 1..n |-> [index |-> bufferedChunkIndex + k - 1,
                                bytes |-> map[bufferedChunkIndex + k - 1]]]
    IN  IF ~sourceBuffer \/ FeederBusy(buffering) \/ n = 0
        THEN /\ isBuffering' = buffering
             /\ updating' = sinkUpdating
             /\ errors' = errs
             /\ UNCHANGED << bufferedChunkIndex, appended, faults >>
        ELSE \/ /\ ~sinkUpdating
                /\ isBuffering' = TRUE
                /\ updating' = TRUE
                /\ appended' = appended \o run
                /\ bufferedChunkIndex' = CursorAfter(n)
                /\ errors' = errs
                /\ UNCHANGED faults
             \/ /\ IF sinkUpdating THEN UNCHANGED faults ELSE Fault
                /\ isBuffering' = FALSE
                /\ updating' = sinkUpdating
                /\ errors' = OnError(errs, "appendFailed")
                /\ bufferedChunkIndex' = CursorAfterFailure(n)
                /\ UNCHANGED appended

\* Mutant of CursorAfterMetadata: the cursor of the earlier transfer is kept.
CursorAfterMetadataKept == bufferedChunkIndex

\* this.bufferedChunkIndex = 0 in handleMetadata.
CursorAfterMetadata == 0

\* handleMetadata(message) for an envelope that carries metadata and a
\* non-zero totalChunks: the receiver state is reset; formatFileSize throws
\* on a metadata object without a numeric fileSize (the exception reaches
\* the catch of handleIncomingMessage before setupMediaSource runs);
\* setupMediaSource ends and drops the previous MediaSource, creates a new
\* one and makes it the source of the video element, which detaches the
\* previous one (a pending append of its buffer is aborted and its
\* updateend is queued).
HandleMetadata(message) ==
    /\ movieMetadata' = message.metadata
    /\ expectedTotalChunks' = message.totalChunks
    /\ receivedChunks' = <<>>
    /\ receivingProgress' = 0
    /\ playbackStarted' = FALSE
    /\ bufferedChunkIndex' = CursorAfterMetadata
    /\ IF message.metadata.fileSize < 0
       THEN /\ errors' = OnError(errors, "incomingFailed")
            /\ UNCHANGED << mediaSource, sourceBuffer, msState, updating,
                            staleEnds, appended >>
       ELSE /\ mediaSource' = TRUE
            /\ sourceBuffer' = IF mediaSource THEN FALSE ELSE sourceBuffer
            /\ msState' = "closed"
            /\ updating' = FALSE
            /\ staleEnds' = IF updating THEN staleEnds + 1 ELSE staleEnds
            /\ appended' = <<>>
            /\ UNCHANGED errors
    /\ UNCHANGED << isBuffering, readyCount, faults, videoVars >>

\* handleChunk(message) for an envelope with a chunkIndex and non-empty
\* data: atob throws on text that is not base64 (the catch reports and
\* nothing is stored); otherwise the chunk is stored, receivingProgress is
\* incremented, then checkPlaybackReadiness() and bufferChunks() run.
HandleChunk(message) ==
    /\ UNCHANGED << expectedTotalChunks, movieMetadata, mediaSource,
                    sourceBuffer, msState, staleEnds, videoVars >>
    /\ IF B64Invalid(message.data)
       THEN /\ errors' = OnError(errors, "chunkFailed")
            /\ UNCHANGED << receivedChunks, receivingProgress, playbackStarted,
                            bufferedChunkIndex, isBuffering, updating, appended,
                            readyCount, faults >>
       ELSE /\ receivedChunks' =
                    MapSet(receivedChunks, message.chunkIndex, B64Decode(message.data))
            /\ receivingProgress' = receivingProgress + 1
            /\ IF BecomesReady(playbackStarted, receivingProgress', expectedTotalChunks)
               THEN \* checkPlaybackReadiness: the flag, onPlaybackReady, and
                    \* for a follower startSyncPlayback(), which for a
                    \* follower only logs; a master calls nothing further
                    /\ playbackStarted' = TRUE
                    /\ readyCount' = readyCount + 1
               ELSE UNCHANGED << playbackStarted, readyCount >>
            /\ BufferChunks(receivedChunks', isBuffering, updating, errors)

\* Mutant of SeekNeeded: a drift of exactly the tolerance seeks as well.
SeekNeededAtTolerance(timeDiff) == timeDiff >= SEEK_TOLERANCE_MS

\* if (timeDiff > SEEK_TOLERANCE)
SeekNeeded(timeDiff) == timeDiff > SEEK_TOLERANCE_MS

\* Mutant of PausedAfter: the follower pauses with the master but never
\* resumes.
PausedAfterNoResume(samplePaused, localPaused) ==
    IF samplePaused /\ ~localPaused THEN TRUE ELSE localPaused

\* The pause reconciliation of handleSync: pause() when the sample is
\* paused and the video is not, play() when the sample is playing and the
\* video is paused, nothing otherwise.
PausedAfter(samplePaused, localPaused) ==
    IF samplePaused /\ ~localPaused THEN TRUE
    ELSE IF ~samplePaused /\ localPaused THEN FALSE
    ELSE localPaused

\* Mutant of IgnoresSync: handleSync does not test the role.
IgnoresSyncNever(master) == FALSE

\* The role test of handleSync: if (this.isMaster || ...) return;
IgnoresSync(master) == master

\* handleSync(message) at wall-clock time now, for an envelope with
\* syncData: the master ignores it; the follower computes
\* adjustedTime = currentTime + (now - timestamp) / 1000, seeks when the
\* drift exceeds SEEK_TOLERANCE and reconciles the pause state.
HandleSync(message, now) ==
    LET sample == message.syncData
        adjustedTime == sample.currentTime + (now - sample.timestamp)
        timeDiff == Abs(videoTime - adjustedTime)
    IN  /\ IF IgnoresSync(isMaster)
           THEN UNCHANGED videoVars
           ELSE /\ videoTime' = IF SeekNeeded(timeDiff)
                                THEN adjustedTime ELSE videoTime
                /\ videoPaused' = PausedAfter(sample.paused, videoPaused)
        /\ UNCHANGED << recvVars, sinkVars, errors, readyCount, faults >>

\* Mutant of ControlTag: the switch has no case for control envelopes.
ControlTagNever(type) == FALSE

\* case 'control': handleControl(message), which only logs.
ControlTag(type) == type = "control"

\* Mutant of UnknownTag: the switch has no default case of its own.
UnknownTagNever(type) == FALSE

\* The default case of the switch on message.type.
UnknownTag(type) == type \notin { "metadata", "chunk", "sync", "control" }

\* Envelopes handleIncomingMessage drops without touching any field: a
\* metadata envelope without metadata or with a falsy totalChunks, a chunk
\* envelope without chunkIndex or with falsy data, a sync envelope without
\* syncData, a control envelope, an unknown type.
Dropped(message) ==
    \/ /\ message.type = "metadata"
       /\ (~message.hasMetadata \/ message.totalChunks = 0)
    \/ /\ message.type = "chunk"
       /\ (message.chunkIndex < 0 \/ message.data = <<>>)
    \/ /\ message.type = "sync"
       /\ ~message.hasSync
    \/ ControlTag(message.type)
    \/ UnknownTag(message.type)

\* channel.onmessage on channel c: handleIncomingMessage(event.data) with
\* Date.now() = now.  Text that JSON.parse rejects is reported by the catch.
OnMessage(c, message, now) ==
    /\ UNCHANGED serverVars
    /\ readyState[c] = "open"
    /\ delivered < MaxDeliveries
    /\ delivered' = delivered + 1
    /\ UNCHANGED lastCall
    /\ UNCHANGED << chanVars, roleVars, sendVars, schedVars, syncVars,
                    chunkSize, sent, apiCalls, xfer, lost >>
    /\ IF message.type = "garbage" THEN
            /\ errors' = OnError(errors, "incomingFailed")
            /\ UNCHANGED << recvVars, sinkVars, videoVars, readyCount, faults >>
       ELSE IF Dropped(message) THEN
            UNCHANGED << recvVars, sinkVars, videoVars, errors, readyCount, faults >>
       ELSE IF message.type = "metadata" THEN HandleMetadata(message)
       ELSE IF message.type = "chunk" THEN HandleChunk(message)
       ELSE HandleSync(message, now)

\* ------------------------------------------------------- the decode sink

\* The MediaSource attached to the video element opens and its sourceopen
\* listener runs: nothing without this.mediaSource or this.movieMetadata;
\* otherwise a SourceBuffer is added for the file's MIME type or a
\* fallback, or, when the platform supports none of them, the error
\* callback is invoked.
SourceOpen(supported) ==
    /\ UNCHANGED serverVars
    /\ msState = "closed"
    /\ msState' = "open"
    /\ UNCHANGED lastCall
    /\ IF ~mediaSource \/ movieMetadata = NoMeta
       THEN UNCHANGED << sourceBuffer, errors >>
       ELSE IF supported
       THEN /\ sourceBuffer' = TRUE
            /\ UNCHANGED errors
       ELSE /\ errors' = OnError(errors, "unsupported")
            /\ UNCHANGED sourceBuffer
    /\ UNCHANGED << chanVars, roleVars, sendVars, schedVars, recvVars,
                    mediaSource, isBuffering, updating, staleEnds, appended,
                    syncVars, videoVars, chunkSize, sent, readyCount,
                    apiCalls, faults, delivered, xfer, lost >>

\* An updateend event reaches its listener: this.isBuffering = false, then
\* bufferChunks().  The event is that of the attached MediaSource's buffer
\* (live) or one queued by the buffer of a detached MediaSource.
UpdateEnd(live) ==
    /\ UNCHANGED serverVars
    /\ IF live THEN updating /\ UNCHANGED staleEnds
               ELSE staleEnds > 0 /\ staleEnds' = staleEnds - 1
    /\ BufferChunks(receivedChunks, FALSE, IF live THEN FALSE ELSE updating, errors)
    /\ UNCHANGED lastCall
    /\ UNCHANGED << chanVars, roleVars, sendVars, schedVars, receivedChunks,
                    expectedTotalChunks, receivingProgress, movieMetadata,
                    playbackStarted, mediaSource, sourceBuffer, msState,
                    syncVars, videoVars, chunkSize, sent, readyCount,
                    apiCalls, delivered, xfer, lost >>

\* ------------------------------------------------------ incoming envelopes

\* A parsed envelope.  chunkIndex = -1 stands for an absent chunkIndex,
\* fileSize = -1 for a metadata object without a numeric fileSize; an absent
\* totalChunks or data is falsy like 0 or ''.
MkMessage(type, index, total, data, hasMeta, meta, hasSync, sample) ==
    [type |-> type, chunkIndex |-> index, totalChunks |-> total, data |-> data,
     hasMetadata |-> hasMeta, metadata |-> meta, hasSync |-> hasSync,
     syncData |-> sample]

NoSample == [currentTime |-> 0, paused |-> FALSE, timestamp |-> 0]

InMetadata(total, hasMeta, size) ==
    MkMessage("metadata", -1, total, <<>>, hasMeta,
              [fileName |-> "movie", fileSize |-> size, fileType |-> "video/mp4"],
              FALSE, NoSample)
InChunk(index, data) ==
    MkMessage("chunk", index, 0, data, FALSE, NoMeta, FALSE, NoSample)
InSync(hasSync, time, paused, stamp) ==
    MkMessage("sync", -1, 0, <<>>, FALSE, NoMeta, hasSync,
              [currentTime |-> time, paused |-> paused, timestamp |-> stamp])
InOther(type) == MkMessage(type, -1, 0, <<>>, FALSE, NoMeta, FALSE, NoSample)

\* Two chunk payloads and text atob rejects.
PayloadA == << 11, 48 >>
PayloadB == << 200 >>
NotBase64 == << 1, 2, 65, 3 >>

InMetadatas ==
    { InMetadata(ShortTotal, TRUE, 6), InMetadata(LongTotal, TRUE, 42),
      InMetadata(0, TRUE, 0), InMetadata(ShortTotal, FALSE, 6),
      InMetadata(ShortTotal, TRUE, -1) }
InChunks ==
    { InChunk(i, B64Encode(PayloadA)) : i \in 0..ShortTotal }
    \cup { InChunk(0, B64Encode(PayloadB)), InChunk(-1, B64Encode(PayloadA)),
           InChunk(0, <<>>), InChunk(0, NotBase64) }
InOthers == { InOther("control"), InOther("unknown"), InOther("garbage") }

\* Wall-clock readings, samples and local playback positions (ms).
Stamps == { 5000 }
Nows == { 4600, 5000, 5400 }
SampleTimes == { 100000 }
LocalTimes == { 98000, 98999, 99000, 99400, 100000, 101400, 101401, 102000 }
InSyncs ==
    { InSync(TRUE, t, p, ts) : t \in SampleTimes, p \in BOOLEAN, ts \in Stamps }
    \cup { InSync(FALSE, 0, FALSE, 0) }

\* ------------------------------------------------------- specifications

\* The application sets the channel up.
SetupNext ==
    \/ SetupInitiator
    \/ SetupResponder

\* The channels' events and the application's cleanup.
ChannelNext ==
    \/ OnDataChannel
    \/ \E c \in Channels : OnOpen(c)
    \/ \E c \in Channels : ChannelCloses(c)
    \/ \E c \in Channels : OnChannelError(c)
    \/ Cleanup
    \/ \E c \in Channels : OnClose(c)

\* The same for a peer that opens a new channel only once the service has
\* dropped the previous one.  A channel replaced while still open keeps its
\* handlers: it delivers envelopes and its close event runs cleanup(), which
\* the current channel and the application's cleanup() do as well, so the
\* restriction removes no state of the service's own fields.
SessionNext ==
    \/ dataChannel = NULL /\ OnDataChannel
    \/ \E c \in Channels : OnOpen(c)
    \/ \E c \in Channels : ChannelCloses(c)
    \/ Cleanup
    \/ \E c \in Channels : OnClose(c)

SenderNext ==
    \/ \E file \in Files : ShareMovie(file)
    \/ \E a \in shareCalls : SplitStep(a)
    \/ \E a \in shareCalls : SplitFails(a)
    \/ SendNextChunk
    \/ PlayTimerFires
    \/ PlayResolves
    \/ PlayRejects
    \/ \E now \in Stamps : SyncTick(now)

ReceiverNext ==
    \/ \E c \in Channels, m \in InMetadatas \cup InChunks \cup InOthers :
            OnMessage(c, m, 5000)
    \/ \E supported \in BOOLEAN : SourceOpen(supported)
    \/ \E live \in BOOLEAN : UpdateEnd(live)

SyncNext ==
    \E c \in Channels, m \in InSyncs, now \in Nows : OnMessage(c, m, now)

\* The whole service, from construction.
Next == SetupNext \/ ChannelNext \/ SenderNext \/ ReceiverNext \/ SyncNext
Spec == Init /\ [][Next]_vars

\* A service whose channel has been set up and has opened, in either role.
ConnectedInit ==
    /\ \E master \in BOOLEAN : Connected(master)
    /\ videoTime = 0
    /\ videoPaused = TRUE
    /\ chunkSize = CHUNK_SIZE

\* The sender half of a connected service: the channels' events, cleanup,
\* shareMovie and the continuations it schedules.  The handlers left out
\* (incoming envelopes, the decode sink) write no field these read.
SendNext ==
    \/ SessionNext
    \/ \E c \in Channels : OnChannelError(c)
    \/ SenderNext
SendSpec == ConnectedInit /\ [][SendNext]_vars

\* The sender half of a service the application sets up again: as SendSpec,
\* with setupDataChannel called on the connected service in either role and
\* the remote peer's channel arriving whether or not the previous channel
\* has been dropped.
RoleNext ==
    \/ SetupNext
    \/ OnDataChannel
    \/ SendNext
RoleSpec == ConnectedInit /\ [][RoleNext]_vars

\* A connected service that receives control envelopes while it sends: its
\* channel stays open, shareMovie and its continuations run, and control
\* envelopes are the only envelopes delivered.
CtlNext ==
    \/ \E file \in Files : ShareMovie(file)
    \/ \E a \in shareCalls : SplitStep(a)
    \/ SendNextChunk
    \/ PlayTimerFires
    \/ PlayResolves
    \/ \E now \in Stamps : SyncTick(now)
    \/ \E c \in Channels : OnMessage(c, InOther("control"), 5000)
CtlSpec == ConnectedInit /\ [][CtlNext]_vars

\* The receiver half of a connected service: the channels' events, cleanup,
\* incoming metadata, chunk, control and malformed envelopes, and the
\* decode sink.  The handlers left out (shareMovie and its continuations,
\* sync envelopes) write no field these read, and none of these reads the
\* role, so the follower stands for both.
RecvInit ==
    /\ Connected(FALSE)
    /\ videoTime = 0
    /\ videoPaused = TRUE
    /\ chunkSize = CHUNK_SIZE
RecvNext == SessionNext \/ ReceiverNext
RecvSpec == RecvInit /\ [][RecvNext]_vars

\* The receiver half in either role: the initiator of the channel receives
\* envelopes as well when the responder shares a movie.
AnyRoleRecvSpec == ConnectedInit /\ [][RecvNext]_vars

\* splitFileIntoChunks as a function of the file and the chunk size: a
\* connected master, every file of SplitFiles, every chunk size up to
\* MaxChunkSize, and the steps of shareMovie.
SplitInit ==
    /\ Connected(TRUE)
    /\ videoTime = 0
    /\ videoPaused = TRUE
    /\ chunkSize \in 1..MaxChunkSize
SplitNext ==
    \/ \E file \in SplitFiles : ShareMovie(file)
    \/ \E a \in shareCalls : SplitStep(a)
SplitSpec == SplitInit /\ [][SplitNext]_vars

\* handleSync as a function of the sample, the clock and the local
\* playback state: a connected service in either role, any local position.
SyncInit ==
    /\ \E master \in BOOLEAN : Connected(master)
    /\ videoTime \in LocalTimes
    /\ videoPaused \in BOOLEAN
    /\ chunkSize = CHUNK_SIZE
SyncSpec == SyncInit /\ [][SyncNext]_vars

\* The byte the sender of the long transfer put in chunk i.
HeldBytes(i) == << 10 + i >>

\* bufferChunks as a function of the chunk map and the cursor: a follower
\* that received the metadata of the long transfer and any set of its
\* first MaxHeld chunks before the MediaSource opened (sourceopen creates the
\* SourceBuffer and feeds nothing), then further chunk envelopes and the
\* updateend events of the appends.
RunInit ==
    /\ listening = TRUE
    /\ readyState = [c \in Channels |-> IF c = 1 THEN "open" ELSE "none"]
    /\ dataChannel = 1
    /\ isMaster = FALSE
    /\ closeEvents = {}
    /\ currentFile = NoFile
    /\ fileChunks = <<>>
    /\ sendingProgress = 0
    /\ totalChunks = 0
    /\ isSending = FALSE
    /\ \E held \in SUBSET (0..(MaxHeld - 1)) :
            /\ receivedChunks = [i \in held |-> HeldBytes(i)]
            /\ receivingProgress = Cardinality(held)
            /\ playbackStarted =
                    (Cardinality(held) * 100 >= BUFFER_THRESHOLD_PCT * LongTotal)
            /\ readyCount = IF playbackStarted THEN 1 ELSE 0
            /\ delivered = 0
    /\ expectedTotalChunks = LongTotal
    /\ movieMetadata = [fileName |-> "movie", fileSize |-> 42, fileType |-> "video/mp4"]
    /\ mediaSource = TRUE
    /\ sourceBuffer = TRUE
    /\ isBuffering = FALSE
    /\ bufferedChunkIndex = 0
    /\ syncInterval = FALSE
    /\ intervals = 0
    /\ shareCalls = {}
    /\ sendTimers = 0
    /\ playTimers = 0
    /\ playPromises = 0
    /\ msState = "open"
    /\ updating = FALSE
    /\ staleEnds = 0
    /\ appended = <<>>
    /\ videoTime = 0
    /\ videoPaused = TRUE
    /\ chunkSize = CHUNK_SIZE
    /\ sent = <<>>
    /\ errors = [k \in ErrorKinds |-> 0]
    /\ lastCall = "none"
    /\ apiCalls = 0
    /\ faults = 0
    /\ xfer = 0
    /\ lost = {}
    /\ ServerInit
RunNext ==
    \/ \E c \in Channels, m \in InChunks : OnMessage(c, m, 5000)
    \/ UpdateEnd(TRUE)
RunSpec == RunInit /\ [][RunNext]_vars

\* --------------------------------------------------- matchmaking server

\* A room id no room has: this.rooms.get(roomId) is undefined.
NoRoom == 0

\* removeUserFromRoom's 'return null'.
NoUser == 0

\* The events initHandlers relays through a RoomManager method that looks
\* the room up, picks the receiving user and emits to it.  "typing" and the
\* other movie events have the same body.
RelayEvents == { "offer", "answer", "add-ice-candidate", "movie-data" }

\* The managers' fields while a handler runs, with the socket.emit calls
\* the handler has made so far.
Server ==
    [users |-> users, queue |-> queue, rooms |-> rooms,
     next |-> GLOBAL_ROOM_ID, timers |-> clearTimers, out |-> <<>>]

\* socket.emit(event, ...) on the socket with the id given.
Emit(st, to, event) ==
    [st EXCEPT !.out = Append(@, [to |-> to, event |-> event])]

\* this.users.find(x => x.socket.id === id) finds a user;
\* this.queue.includes(id).
Includes(list, id) == \E i \in 1..Len(list) : list[i] = id

\* list.filter(x => x !== id)
Without(list, id) == SelectSeq(list, LAMBDA x : x # id)

\* RoomManager.createRoom, with generate().
CreateRoom(st, user1, user2) ==
    LET room == [roomId |-> st.next, user1 |-> user1, user2 |-> user2]
        made == [st EXCEPT !.rooms = @ \cup { room }, !.next = @ + 1]
    IN  Emit(Emit(made, user1, "send-offer"), user2, "send-offer")

\* UserManager.clearQueue: pairs the two ids at the head while there are
\* two; when one of them is not a user it puts the other back and returns.
RECURSIVE ClearQueue(_)
ClearQueue(st) ==
    IF Len(st.queue) < 2
    THEN st
    ELSE LET id1 == st.queue[1]
             id2 == st.queue[2]
             rest == SubSeq(st.queue, 3, Len(st.queue))
             user1 == Includes(st.users, id1)
             user2 == Includes(st.users, id2)
         IN  IF ~user1 \/ ~user2
             THEN [st EXCEPT !.queue =
                      (IF user2 THEN << id2 >> ELSE <<>>)
                      \o (IF user1 THEN << id1 >> ELSE <<>>)
                      \o rest]
             ELSE ClearQueue(CreateRoom([st EXCEPT !.queue = rest], id1, id2))

\* UserManager.addUser up to clearQueue(); initHandlers is in Join.
AddUser(st, socket) ==
    ClearQueue(Emit([st EXCEPT !.users = Append(@, socket),
                               !.queue = Append(@, socket)],
                    socket, "lobby"))

\* The rooms removeUserFromRoom's test accepts for the socket id.
RoomsOf(rs, socketId) ==
    { r \in rs : r.user1 = socketId \/ r.user2 = socketId }

\* The first of them in the Map's iteration order, the order of insertion.
FirstRoomOf(rs, socketId) ==
    CHOOSE r \in RoomsOf(rs, socketId) :
        \A o \in RoomsOf(rs, socketId) : r.roomId <= o.roomId

\* The user removeUserFromRoom returns.
RemainingUser(rs, socketId) ==
    IF RoomsOf(rs, socketId) = {}
    THEN NoUser
    ELSE LET room == FirstRoomOf(rs, socketId)
         IN  IF room.user1 = socketId THEN room.user2 ELSE room.user1

\* RoomManager.removeUserFromRoom: the managers' fields after it.
RemoveUserFromRoom(st, socketId) ==
    IF RoomsOf(st.rooms, socketId) = {}
    THEN st
    ELSE [Emit(st, RemainingUser(st.rooms, socketId), "user-disconnected")
             EXCEPT !.rooms = @ \ { FirstRoomOf(st.rooms, socketId) }]

\* if (!this.queue.includes(id)) { push; emit("lobby"); setTimeout(...) }
Requeue(st, id) ==
    IF Includes(st.queue, id)
    THEN st
    ELSE [Emit(st, id, "lobby") EXCEPT !.queue = Append(@, id),
                                       !.timers = @ + 1]

\* UserManager.removeUser
RemoveUser(st, socketId) ==
    LET remainingUser == RemainingUser(st.rooms, socketId)
        left == RemoveUserFromRoom(st, socketId)
        requeued == IF remainingUser = NoUser
                    THEN left
                    ELSE Requeue(left, remainingUser)
    IN  [requeued EXCEPT !.users = Without(@, socketId),
                         !.queue = Without(@, socketId)]

\* The room's member a relayed event goes to, for the sender given.
ReceivingUser(room, sender) ==
    IF room.user1 = sender THEN room.user2 ELSE room.user1

\* RoomManager.onOffer, onAnswer, onIceCandidates, onMovieData
OnRelay(st, roomId, sender, event) ==
    LET found == { r \in st.rooms : r.roomId = roomId }
    IN  IF found = {}
        THEN st
        ELSE Emit(st, ReceivingUser(CHOOSE r \in found : TRUE, sender), event)

\* RoomManager.onMessage
RoomOnMessage(st, roomId, sender) ==
    LET found == { r \in st.rooms : r.roomId = roomId }
    IN  IF found = {}
        THEN st
        ELSE LET room == CHOOSE r \in found : TRUE
                 sendingUser == IF room.user1 = sender THEN room.user1
                                                       ELSE room.user2
             IN  Emit(Emit(st, ReceivingUser(room, sender), "receive-message"),
                      sendingUser, "message-sent")

\* One listener initHandlers registered on the socket, for the event given.
Listener(st, socket, event, roomId) ==
    CASE event = "new-chat" ->
            Requeue(RemoveUserFromRoom(st, socket), socket)
      [] event = "send-message" ->
            IF Includes(st.users, socket)
            THEN RoomOnMessage(st, roomId, socket)
            ELSE st
      [] OTHER -> OnRelay(st, roomId, socket, event)

\* The socket emits the event: its n listeners for it run in turn.
RECURSIVE Listeners(_, _, _, _, _)
Listeners(st, socket, event, roomId, n) ==
    IF n = 0
    THEN st
    ELSE Listeners(Listener(st, socket, event, roomId), socket, event,
                   roomId, n - 1)

\* The managers' fields and the emits once the handler has returned.
Commit(st) ==
    /\ users' = st.users
    /\ queue' = st.queue
    /\ rooms' = st.rooms
    /\ GLOBAL_ROOM_ID' = st.next
    /\ clearTimers' = st.timers
    /\ emitted' = st.out

\* io.on('connection'): a socket with a fresh id; its join and disconnect
\* listeners are registered.  Ids are taken in order.
Connect(s) ==
    /\ conn[s] = "none"
    /\ \A t \in 1..(s - 1) : conn[t] # "none"
    /\ conn' = [conn EXCEPT ![s] = "open"]
    /\ emitted' = <<>>
    /\ UNCHANGED << users, queue, rooms, GLOBAL_ROOM_ID, clearTimers, handlers,
                    joins, newChats, clientVars >>

\* socket.on("join"): addUser, whose last statement is initHandlers.  The
\* join listeners of earlier initHandlers calls only rename the user.
Join(s) ==
    /\ conn[s] = "open"
    /\ joins < MaxJoins
    /\ joins' = joins + 1
    /\ Commit(AddUser(Server, s))
    /\ handlers' = [handlers EXCEPT ![s] = @ + 1]
    /\ UNCHANGED << conn, newChats, clientVars >>

\* socket.on("disconnect"): removeUser.
Disconnect(s) ==
    /\ conn[s] = "open"
    /\ conn' = [conn EXCEPT ![s] = "closed"]
    /\ Commit(RemoveUser(Server, s))
    /\ UNCHANGED << handlers, joins, newChats, clientVars >>

\* socket.on("new-chat")
NewChat(s) ==
    /\ conn[s] = "open"
    /\ handlers[s] > 0
    /\ newChats < MaxNewChats
    /\ newChats' = newChats + 1
    /\ Commit(Listeners(Server, s, "new-chat", NoRoom, handlers[s]))
    /\ UNCHANGED << conn, handlers, joins, clientVars >>

\* A setTimeout(() => this.clearQueue(), 500) callback runs.
ClearQueueTimer ==
    /\ clearTimers > 0
    /\ Commit(ClearQueue([Server EXCEPT !.timers = @ - 1]))
    /\ UNCHANGED << conn, handlers, joins, newChats, clientVars >>

\* socket.on(event) for a relayed event or "send-message", with the room id
\* the client put in the payload.
Relay(s, event, roomId) ==
    /\ conn[s] = "open"
    /\ handlers[s] > 0
    /\ Commit(Listeners(Server, s, event, roomId, handlers[s]))
    /\ UNCHANGED << conn, handlers, joins, newChats, clientVars >>

\* The room ids a client can put in a payload: the ids issued so far and
\* one that was never issued.
RoomIds == { r.roomId : r \in rooms } \cup { NoRoom }

\* Matchmaking: connections, join, new-chat and disconnect events and the
\* deferred clearQueue calls, from a server without connections.
MatchNext ==
    \/ \E s \in Sockets : Connect(s)
    \/ \E s \in Sockets : Join(s)
    \/ \E s \in Sockets : Disconnect(s)
    \/ \E s \in Sockets : NewChat(s)
    \/ ClearQueueTimer
MatchSpec == Init /\ [][MatchNext]_vars

\* The relayed events: connections, join and disconnect events, and every
\* socket that has joined emitting every relayed event for every room id.
RelayNext ==
    \/ \E s \in Sockets : Connect(s)
    \/ \E s \in Sockets : Join(s)
    \/ \E s \in Sockets : Disconnect(s)
    \/ \E s \in Sockets, event \in RelayEvents \cup { "send-message" },
          roomId \in RoomIds : Relay(s, event, roomId)
RelaySpec == Init /\ [][RelayNext]_vars

\* ----------------------------------------------------------------- claims

\* shareMovie has returned from 'await this.splitFileIntoChunks(file)' for
\* the transfer it accepted last: no activation is suspended in the loop.
SplitDone == xfer > 0 /\ shareCalls = {}

\* C1: for every file size S >= 0 and chunk size C, once splitFileIntoChunks
\* has returned, totalChunks is ceil(S / C) (the least n with n * C >= S),
\* the list holds totalChunks chunks, chunk i is bytes
\* [i * C, min((i + 1) * C, S)) of the file, and the chunks concatenated in
\* index order are the file's bytes.
C1_SplitRoundTrip ==
    SplitDone =>
        LET S == Len(currentFile.bytes)
            C == chunkSize
        IN  /\ totalChunks * C >= S
            /\ (totalChunks = 0 \/ (totalChunks - 1) * C < S)
            /\ Len(fileChunks) = totalChunks
            /\ \A i \in 0..(totalChunks - 1) :
                    LET end == IF (i + 1) * C < S THEN (i + 1) * C ELSE S
                    IN  fileChunks[i + 1] =
                            [k \in 1..(end - i * C) |-> currentFile.bytes[i * C + k]]
            /\ Concat(fileChunks) = currentFile.bytes

\* C1 witness: a file split into several chunks, the last of them partial.
C1_Witness ==
    /\ SplitDone
    /\ Len(fileChunks) >= 2
    /\ Len(fileChunks[Len(fileChunks)]) < chunkSize
    /\ Len(fileChunks[1]) = chunkSize

\* A chunk envelope handleChunk stores: it has a chunkIndex and data that
\* atob accepts.
StoredChunk(m) ==
    /\ m.type = "chunk"
    /\ ~Dropped(m)
    /\ ~B64Invalid(m.data)

\* The envelope m has been handled since the receiver state was last reset:
\* its bytes are in the chunk map under its index.
Handled(m) ==
    /\ StoredChunk(m)
    /\ m.chunkIndex \in DOMAIN receivedChunks
    /\ receivedChunks[m.chunkIndex] = B64Decode(m.data)

\* C2: reassembly is idempotent: handling a chunk envelope that has been
\* handled before leaves the chunk map and receivingProgress as they were.
C2_ReassemblyIdempotent ==
    [][\A c \in Channels, m \in InChunks :
            (Handled(m) /\ OnMessage(c, m, 5000)) =>
                /\ receivedChunks' = receivedChunks
                /\ receivingProgress' = receivingProgress]_vars

\* C2, the case: a chunk has been stored twice, so that receivingProgress
\* exceeds the number of chunks held.
C2_Witness ==
    /\ DOMAIN receivedChunks = { 0 }
    /\ receivingProgress = 2

\* C3: the cursor never passes a gap: every index below bufferedChunkIndex
\* has been received and fed, and an index is fed to the attached
\* MediaSource only after every index below it has been fed.
C3_CursorNeverPassesGap ==
    /\ \A j \in 0..(bufferedChunkIndex - 1) :
            /\ j \in DOMAIN receivedChunks
            /\ \E k \in 1..Len(appended) : appended[k].index = j
    /\ \A k \in 1..Len(appended) :
            \A j \in 0..(appended[k].index - 1) :
                \E h \in 1..(k - 1) : appended[h].index = j

\* C3 witness: chunks 0 and 2 have arrived, chunk 1 has not; chunk 0 is fed
\* and the cursor waits at the gap.
C3_Witness ==
    /\ DOMAIN receivedChunks = { 0, 2 }
    /\ bufferedChunkIndex = 1
    /\ Len(appended) = 1
    /\ ~updating
    /\ ~isBuffering

\* The session the service starts in is still alive: the channel it was set
\* up with is its channel and is open (cleanup, which ends the session,
\* forgets the channel).
FirstSession == dataChannel = 1 /\ readyState[1] = "open"

\* C4: playback readiness triggers exactly once per session: within the
\* first session onPlaybackReady is called by a step exactly when that step
\* is the first chunk delivery at which receivingProgress / totalChunks
\* reaches 10%, and never again, whatever envelopes follow.
C4_ReadyOncePerSession ==
    [][FirstSession =>
            /\ readyCount' \in { readyCount, readyCount + 1 }
            /\ readyCount' <= 1
            /\ (readyCount' = readyCount + 1) <=>
                    /\ readyCount = 0
                    /\ receivingProgress' = receivingProgress + 1
                    /\ expectedTotalChunks # 0
                    /\ receivingProgress' * 100 >= BUFFER_THRESHOLD_PCT * expectedTotalChunks]_vars

\* C4, the case: the session has notified readiness, a second metadata
\* envelope has re-armed it, and the next chunk notifies again.
C4_Witness ==
    /\ FirstSession
    /\ readyCount = 2
    /\ receivingProgress = 1
    /\ playbackStarted

\* C5: follower reconciliation: on a sync sample handled at time now,
\* targetTime = sample.currentTime + (now - sample.timestamp); when the local
\* position differs from targetTime by more than 1.0 s it becomes exactly
\* targetTime, otherwise it is left as it was.
C5_FollowerReconciliation ==
    [][\A c \in Channels, m \in InSyncs, now \in Nows :
            (~isMaster /\ m.hasSync /\ OnMessage(c, m, now)) =>
                LET targetTime == m.syncData.currentTime + (now - m.syncData.timestamp)
                    drift == IF videoTime >= targetTime
                             THEN videoTime - targetTime
                             ELSE targetTime - videoTime
                IN  /\ drift > 1000 => videoTime' = targetTime
                    /\ drift <= 1000 => videoTime' = videoTime]_vars

\* C5 witness: a follower at 98.0 s has handled the sample 100.0 s stamped
\* 0.4 s earlier and is at 100.4 s.
C5_Witness ==
    /\ ~isMaster
    /\ delivered = 1
    /\ videoTime = 100400

\* The indices of the chunk envelopes of transfer x passed to
\* dataChannel.send so far.
ChunksSent(x) ==
    { sent[k].msg.chunkIndex :
        k \in { h \in 1..Len(sent) : sent[h].xfer = x /\ sent[h].msg.type = "chunk" } }

\* C6: when sendNextChunk finds the channel not open at chunk k of a
\* transfer, exactly one 'Connection lost' error is reported for it (one
\* report per loss, and no transfer loses the channel twice, so nothing is
\* retried), the transfer stops, and no chunk with index >= k of that
\* transfer is ever sent.
C6_ChannelLostHalts ==
    /\ errors["connectionLost"] = Cardinality(lost)
    /\ \A l \in lost :
            /\ \A m \in lost : m.xfer = l.xfer => m = l
            /\ \A i \in ChunksSent(l.xfer) : i < l.index
            /\ xfer = l.xfer => ~isSending

\* C6 witness: the channel was lost at chunk 1 of a two-chunk transfer,
\* after chunk 0 had been sent.
C6_Witness ==
    /\ lost = { [xfer |-> 1, index |-> 1] }
    /\ ChunksSent(1) = { 0 }
    /\ errors["connectionLost"] = 1
    /\ sendTimers = 0

\* No error has been passed to the error callback so far.
NoErrorYet == \A k \in ErrorKinds : errors[k] = 0

\* C7: a transport fault is always surfaced: a step of the service itself
\* (not a call of the application) that ends a transfer with chunks still to
\* send while its channel is closed, with no error reported before it and
\* no shareMovie suspended that could still report, invokes the error
\* callback.
C7_TransportFaultSurfaced ==
    [][(/\ isSending
        /\ ~isSending'
        /\ sendingProgress < totalChunks
        /\ shareCalls = {}
        /\ apiCalls' = apiCalls
        /\ dataChannel # NULL
        /\ readyState[dataChannel] = "closed"
        /\ NoErrorYet)
            => \E k \in ErrorKinds : errors'[k] > errors[k]]_vars

\* C7, the case: the first transfer has sent its metadata and not all of its
\* chunks, its channel has closed and the close event has been handled,
\* nothing is scheduled any more, the application has made no call but
\* shareMovie, and the error callback has never been invoked.
C7_Witness ==
    /\ xfer = 1
    /\ apiCalls = 1
    /\ \E k \in 1..Len(sent) : sent[k].xfer = 1 /\ sent[k].msg.type = "metadata"
    /\ Cardinality(ChunksSent(1)) < TotalChunksOf(PatternBytes(LongFileLen), chunkSize)
    /\ readyState[1] = "closed"
    /\ closeEvents = {}
    /\ ~isSending
    /\ sendTimers = 0
    /\ shareCalls = {}
    /\ NoErrorYet

\* The receiver of one transfer whose channel stays open and whose sink
\* completes every append: the metadata envelope arrives first; chunk,
\* control and malformed envelopes follow in any order, repeated or not,
\* before or after the MediaSource opens; no fault is injected.  The browser
\* dispatches sourceopen and updateend once they are due, which is the
\* fairness assumed.
FeedMetadata(c) ==
    /\ delivered = 0
    /\ OnMessage(c, InMetadata(ShortTotal, TRUE, 6), 5000)
    /\ faults' = faults
FeedEnvelope(c, m) ==
    /\ delivered > 0
    /\ OnMessage(c, m, 5000)
    /\ faults' = faults
FeedSourceOpen == SourceOpen(TRUE) /\ faults' = faults
FeedUpdateEnd == UpdateEnd(TRUE) /\ faults' = faults
FeedNext ==
    \/ \E c \in Channels : FeedMetadata(c)
    \/ \E c \in Channels, m \in InChunks \cup InOthers : FeedEnvelope(c, m)
    \/ FeedSourceOpen
    \/ FeedUpdateEnd
FeedSpec ==
    /\ RecvInit
    /\ [][FeedNext]_vars
    /\ WF_vars(FeedSourceOpen)
    /\ WF_vars(FeedUpdateEnd)

\* Every chunk of the expected transfer is in the chunk map.
AllDelivered ==
    /\ expectedTotalChunks # 0
    /\ \A i \in 0..(expectedTotalChunks - 1) : i \in DOMAIN receivedChunks

\* C8: once all totalChunks chunks have been delivered, whether before or
\* after the decode sink became ready, the cursor eventually reaches
\* totalChunks: every chunk is fed to the sink.
C8_AllChunksFed == AllDelivered ~> (bufferedChunkIndex = expectedTotalChunks)

\* C8, the case: every chunk arrived before the MediaSource opened; the
\* SourceBuffer now exists, no append is pending and nothing has been fed.
C8_Witness ==
    /\ AllDelivered
    /\ sourceBuffer
    /\ ~updating
    /\ ~isBuffering
    /\ bufferedChunkIndex = 0
    /\ appended = <<>>

\* C9: shareMovie called while the channel is absent or not open, or while
\* a transfer is in progress, is rejected synchronously: nothing is sent,
\* nothing is scheduled, and currentFile, fileChunks, sendingProgress,
\* totalChunks and isSending are left as they were.
C9_ShareMovieRejected ==
    [][\A file \in Files :
            (/\ ShareMovie(file)
             /\ \/ dataChannel = NULL
                \/ readyState[dataChannel] # "open"
                \/ isSending)
                => /\ sent' = sent
                   /\ currentFile' = currentFile
                   /\ fileChunks' = fileChunks
                   /\ sendingProgress' = sendingProgress
                   /\ totalChunks' = totalChunks
                   /\ isSending' = isSending
                   /\ shareCalls' = shareCalls
                   /\ sendTimers' = sendTimers
                   /\ xfer' = xfer]_vars

\* C9 witness: a second shareMovie was rejected as busy while the first
\* transfer, one chunk sent, goes on with its state intact.
C9_Witness ==
    /\ lastCall = "busy"
    /\ isSending
    /\ xfer = 1
    /\ sendingProgress = 1
    /\ Len(fileChunks) = totalChunks
    /\ currentFile.name = "long"
    /\ Len(sent) = 2

\* The positions in the send log of the envelopes of the given type emitted
\* for transfer x.
SentAt(x, type) ==
    { k \in 1..Len(sent) : sent[k].xfer = x /\ sent[k].msg.type = type }

\* C10: for each transfer started by shareMovie, no more than one metadata
\* envelope is emitted, every chunk envelope of the transfer is emitted
\* after it, and no chunk envelope is emitted for a transfer whose metadata
\* envelope was not sent.
C10_MetadataPrecedesChunks ==
    \A x \in 1..xfer :
        /\ Cardinality(SentAt(x, "metadata")) <= 1
        /\ \A k \in SentAt(x, "chunk") :
                \E m \in SentAt(x, "metadata") : m < k

\* C10, the case: a chunk envelope of the second transfer has been emitted
\* and its metadata envelope has not.
C10_Witness ==
    /\ xfer = 2
    /\ SentAt(2, "chunk") # {}
    /\ SentAt(2, "metadata") = {}

\* C11: within one transfer the chunk indices are emitted in strictly
\* ascending order 0, 1, 2, ...: the j-th chunk envelope of a transfer
\* carries index j - 1, so no index is emitted twice; the cursor stays
\* within 0..totalChunks and, while the transfer is in progress, equals the
\* number of chunk envelopes emitted for it.
C11_AscendingChunkOrder ==
    /\ sendingProgress \in 0..totalChunks
    /\ \A x \in 1..xfer :
            \A k \in SentAt(x, "chunk") :
                sent[k].msg.chunkIndex =
                    Cardinality({ h \in SentAt(x, "chunk") : h < k })
    /\ isSending => sendingProgress = Cardinality(SentAt(xfer, "chunk"))

\* C11 witness: both chunks of the two-chunk file have been emitted, index 0
\* before index 1, and the cursor has reached totalChunks.
C11_Witness ==
    /\ xfer = 1
    /\ totalChunks = 2
    /\ sendingProgress = totalChunks
    /\ Cardinality(SentAt(1, "chunk")) = 2
    /\ sent[Len(sent)].msg.type = "chunk"
    /\ sent[Len(sent)].msg.chunkIndex = 1

\* C12: handling a metadata envelope that carries metadata and a non-zero
\* totalChunks resets the receiver state, whatever it was before: the chunk
\* map is empty, receivingProgress is 0, the cursor is 0 and playbackStarted
\* is false.
C12_MetadataResetsReceiver ==
    [][\A c \in Channels, m \in InMetadatas :
            (~Dropped(m) /\ OnMessage(c, m, 5000)) =>
                /\ receivedChunks' = <<>>
                /\ receivingProgress' = 0
                /\ bufferedChunkIndex' = 0
                /\ playbackStarted' = FALSE
                /\ expectedTotalChunks' = m.totalChunks
                /\ movieMetadata' = m.metadata]_vars

\* C12 witness: a metadata envelope has arrived mid-way through an earlier
\* transfer that had stored and fed a chunk and notified readiness: the new
\* MediaSource is not open yet and the receiver state is reset.
C12_Witness ==
    /\ FirstSession
    /\ readyCount = 1
    /\ delivered = 3
    /\ mediaSource
    /\ msState = "closed"
    /\ staleEnds = 1
    /\ receivedChunks = <<>>
    /\ receivingProgress = 0
    /\ bufferedChunkIndex = 0
    /\ ~playbackStarted

\* C13: back-pressure: no append is issued while the sink is still
\* processing the previous one (appendBuffer on an updating SourceBuffer
\* throws, so an append fails only by a fault of the sink, and a step that
\* feeds chunks leaves exactly one append pending), and every updateend of
\* the attached buffer re-scans: with a chunk at the cursor it feeds again.
C13_BackPressure ==
    [][/\ errors'["appendFailed"] > errors["appendFailed"] => faults' = faults + 1
       /\ Len(appended') > Len(appended) =>
            /\ updating'
            /\ isBuffering'
            /\ ~updating \/ UpdateEnd(TRUE)
       /\ (/\ UpdateEnd(TRUE)
           /\ sourceBuffer
           /\ bufferedChunkIndex \in DOMAIN receivedChunks)
                => \/ Len(appended') > Len(appended)
                   \/ faults' = faults + 1]_vars

\* C13 witness: chunk 1 arrived while the append of chunk 0 was pending and
\* was held back; the updateend of that append has fed it.
C13_Witness ==
    /\ Len(appended) = 2
    /\ appended[1].index = 0
    /\ appended[2].index = 1
    /\ bufferedChunkIndex = 2
    /\ updating
    /\ delivered = 3
    /\ faults = 0


\* C14: the master never reacts to sync samples: while isMaster holds,
\* handling any sync envelope leaves the playback position, the paused flag
\* and every field of the service unchanged.
C14_MasterIgnoresSync ==
    [][\A c \in Channels, m \in InSyncs, now \in Nows :
            (isMaster /\ OnMessage(c, m, now)) =>
                UNCHANGED << chanVars, roleVars, sendVars, schedVars, recvVars,
                             sinkVars, syncVars, videoVars, chunkSize, sent,
                             errors, readyCount >>]_vars

\* C14 witness: a master whose paused video stands two seconds behind the
\* samples (a follower would have sought and resumed) has handled two sync
\* envelopes.
C14_Witness ==
    /\ isMaster
    /\ delivered = 2
    /\ videoPaused
    /\ videoTime = 98000


\* C15: sync samples are produced only by the master: a service whose
\* channel makes it the follower holds no broadcast interval and sends no
\* sync envelope.
C15_OnlyMasterBroadcasts ==
    /\ [](dataChannel # NULL /\ ~isMaster => ~syncInterval)
    /\ [][~isMaster => SyncsSent' = SyncsSent]_vars

\* C15 witness: the service became the follower of a new channel while the
\* interval started in its master session was running, and a tick has sent
\* a sample on the follower's channel.
C15_Witness ==
    /\ ~isMaster
    /\ dataChannel = 2
    /\ syncInterval
    /\ SyncsSent = 1
    /\ sent[Len(sent)].msg.type = "sync"
    /\ sent[Len(sent)].chan = 2


\* The state cleanup() is to leave: empty chunk map and chunk list, no
\* broadcast interval, no MediaSource, the flags false, the cursors 0, no
\* channel reference.
CleanedUp ==
    /\ receivedChunks = <<>>
    /\ fileChunks = <<>>
    /\ currentFile = NoFile
    /\ ~syncInterval
    /\ ~mediaSource
    /\ ~sourceBuffer
    /\ ~isSending
    /\ ~playbackStarted
    /\ bufferedChunkIndex = 0
    /\ sendingProgress = 0
    /\ receivingProgress = 0
    /\ dataChannel = NULL

C17_NoOrphanedCallbacks ==
    [][dataChannel = NULL =>
            /\ sent' = sent
            /\ ~PlayTimerFires
            /\ ~syncInterval']_vars

\* C17 witness: the settle timer was pending when the session was torn
\* down; it has fired, play() has resolved and the service, without a
\* channel, holds a broadcast interval and a playing video.
C17_Witness ==
    /\ dataChannel = NULL
    /\ \A c \in Channels : readyState[c] \in { "none", "closed" }
    /\ syncInterval
    /\ ~videoPaused
    /\ playTimers = 0
    /\ playPromises = 0


\* C18: a close notification of the channel brings the session to Closed:
\* after onclose the chunk map and the file chunk list are empty, no timer
\* is pending (pacing timer, settle timer, broadcast interval) and the
\* service holds no channel, the one it held being closed.
C18_CloseReleasesAll ==
    [][\A c \in Channels : OnClose(c) =>
            /\ receivedChunks' = <<>>
            /\ fileChunks' = <<>>
            /\ ~syncInterval'
            /\ sendTimers' = 0
            /\ playTimers' = 0
            /\ dataChannel' = NULL
            /\ dataChannel # NULL =>
                    readyState'[dataChannel] \notin { "connecting", "open" }]_vars

\* C18 witness: the channel closed while the settle timer of a completed
\* transfer was pending; onclose has run cleanup, the buffers are released
\* and the timer is still pending.
C18_Witness ==
    /\ apiCalls = 1
    /\ lastCall = "accepted"
    /\ dataChannel = NULL
    /\ closeEvents = {}
    /\ readyState[1] = "closed"
    /\ fileChunks = <<>>
    /\ playTimers = 1
    /\ Len(sent) > 1


\* C19: Error is terminal: once the unsupported-format error has been
\* reported in the first session, no step of that session stores a chunk,
\* feeds the sink or notifies readiness.
C19_ErrorIsTerminal ==
    [][(FirstSession /\ FirstSession' /\ errors["unsupported"] > 0) =>
            /\ receivedChunks' = receivedChunks
            /\ receivingProgress' = receivingProgress
            /\ appended' = appended
            /\ readyCount' = readyCount]_vars

\* C19 witness: after the metadata envelope the sourceopen handler reported
\* the unsupported format; the next chunk envelope of the same session was
\* stored and readiness was notified.
C19_Witness ==
    /\ FirstSession
    /\ errors["unsupported"] = 1
    /\ delivered = 2
    /\ ~sourceBuffer
    /\ DOMAIN receivedChunks = { 0 }
    /\ receivingProgress = 1
    /\ readyCount = 1


\* C20: a malformed envelope is dropped and the session continues: handling
\* text that does not parse, or an envelope with an unknown type tag, leaves
\* the chunk map, the received count, the cursor, the readiness flag, the
\* sink, the sender and the channel as they were; the unparsable text is
\* reported, the unknown tag is not.
C20_MalformedDropped ==
    [][\A c \in Channels, m \in { InOther("unknown"), InOther("garbage") } :
            OnMessage(c, m, 5000) =>
                /\ UNCHANGED << chanVars, roleVars, sendVars, schedVars,
                                recvVars, sinkVars, syncVars, videoVars,
                                chunkSize, sent, readyCount >>
                /\ errors' = IF m.type = "garbage"
                             THEN OnError(errors, "incomingFailed")
                             ELSE errors]_vars

\* C20 witness: in one session an unparsable text was reported and dropped,
\* and a metadata envelope and chunks 0 and 1 were processed: both chunks
\* stored, readiness notified, the channel still open.
C20_Witness ==
    /\ FirstSession
    /\ errors["incomingFailed"] = 1
    /\ delivered = 4
    /\ DOMAIN receivedChunks = { 0, 1 }
    /\ receivingProgress = 2
    /\ readyCount = 1


\* C21: a chunk envelope received before any metadata envelope is dropped:
\* while no metadata has ever been handled, handling a chunk envelope leaves
\* the chunk map, the received count, the readiness flag, the cursor and the
\* sink unchanged.
C21_ChunkBeforeMetadataDropped ==
    [][\A c \in Channels, m \in InChunks :
            (movieMetadata = NoMeta /\ OnMessage(c, m, 5000)) =>
                UNCHANGED << recvVars, sinkVars, readyCount >>]_vars

\* C21 witness: the first envelope the service ever handled was chunk 0; it
\* is in the chunk map and counted, with no metadata known.
C21_Witness ==
    /\ movieMetadata = NoMeta
    /\ expectedTotalChunks = 0
    /\ delivered = 1
    /\ DOMAIN receivedChunks = { 0 }
    /\ receivingProgress = 1
    /\ readyCount = 0
    /\ appended = <<>>


\* C22: once the sink has failed an append, the session stops feeding: in
\* the first session, after bufferChunks has reported a buffering error, no
\* step hands another block to the sink.
C22_NoRetryAfterSinkError ==
    [][(FirstSession /\ errors["appendFailed"] > 0) =>
            Len(appended') <= Len(appended)]_vars

\* C22 witness: the append of chunk 0 was failed by the sink and reported;
\* the arrival of chunk 1 made bufferChunks try again from the same cursor,
\* and chunks 0 and 1 were appended.
C22_Witness ==
    /\ FirstSession
    /\ errors["appendFailed"] = 1
    /\ faults = 1
    /\ delivered = 3
    /\ Len(appended) = 2
    /\ appended[1].index = 0
    /\ appended[2].index = 1
    /\ bufferedChunkIndex = 2
    /\ staleEnds = 0


\* C23: the readiness rule by role: the step in which a receiver becomes
\* ready leaves a follower waiting (no timer, no playback change, nothing
\* sent) and schedules the master's settle timer, after which the master
\* plays and broadcasts.
C23_ReadinessByRole ==
    [][readyCount' = readyCount + 1 =>
            IF isMaster
            THEN playTimers' = playTimers + 1
            ELSE UNCHANGED << syncVars, videoVars, sent >>]_vars

\* C23 witness: a master has received the metadata and the chunks of a
\* transfer and has notified readiness; no settle timer or play() is
\* pending, the video is paused and there is no broadcast interval.
C23_Witness ==
    /\ isMaster
    /\ FirstSession
    /\ readyCount = 1
    /\ playbackStarted
    /\ receivingProgress = expectedTotalChunks
    /\ playTimers = 0
    /\ playPromises = 0
    /\ videoPaused
    /\ ~syncInterval


\* C24: pause reconciliation on the follower: after a sync sample is
\* handled, a playing video is paused when the sample is paused, a paused
\* video is resumed when the sample is playing, and the pause state is
\* otherwise unchanged, whether or not the step also seeks.
C24_PauseReconciliation ==
    [][\A c \in Channels, m \in InSyncs, now \in Nows :
            (~isMaster /\ m.hasSync /\ OnMessage(c, m, now)) =>
                /\ (m.syncData.paused /\ ~videoPaused) => videoPaused'
                /\ (~m.syncData.paused /\ videoPaused) => ~videoPaused'
                /\ (m.syncData.paused = videoPaused) => videoPaused' = videoPaused]_vars

\* C24 witness: a follower has handled two samples; it has sought to a
\* position only a seek produces (the sample's 100.0 s adjusted by the
\* 0.4 s between the clocks) and its video is playing.
C24_Witness ==
    /\ ~isMaster
    /\ delivered = 2
    /\ videoTime \in { 99600, 100400 }
    /\ ~videoPaused


\* C25: the sendNextChunk call that finds every chunk sent marks the
\* transfer complete (isSending false, nothing more sent) and starts
\* playback exactly for a master; a shareMovie called with no transfer in
\* progress on an open channel is accepted; the broadcast interval is
\* created only by a master and only by the step in which its play()
\* promise resolves.
C25_CompletionStartsBroadcast ==
    [][/\ (SendNextChunk /\ isSending /\ sendingProgress >= totalChunks) =>
            /\ ~isSending'
            /\ sent' = sent
            /\ playTimers' = IF isMaster THEN playTimers + 1 ELSE playTimers
       /\ \A file \in Files :
            (ShareMovie(file) /\ ~isSending /\ ChannelOpenNow) =>
                lastCall' = "accepted"
       /\ (~syncInterval /\ syncInterval') =>
            /\ isMaster
            /\ PlayResolves
       /\ ~isMaster => ~syncInterval']_vars

\* C25 witness: a master sent every chunk of a first transfer, its play()
\* resolved and the broadcast interval runs; a second shareMovie was
\* accepted and is in progress.
C25_Witness ==
    /\ isMaster
    /\ xfer = 2
    /\ lastCall = "accepted"
    /\ isSending
    /\ syncInterval
    /\ ~videoPaused
    /\ Cardinality(SentAt(1, "chunk")) > 0
    /\ Cardinality(SentAt(1, "metadata")) = 1


\* C26: a chunk envelope whose index is at or beyond totalChunks, or whose
\* index is already in the chunk map, is accepted: no chunk or envelope
\* error is raised, the entry for its index holds the new bytes, the other
\* entries are kept and the channel stays as it was.
C26_LateOrRepeatedChunkAccepted ==
    [][\A c \in Channels, m \in InChunks :
            (/\ ~Dropped(m)
             /\ ~B64Invalid(m.data)
             /\ \/ m.chunkIndex >= expectedTotalChunks
                \/ m.chunkIndex \in DOMAIN receivedChunks
             /\ OnMessage(c, m, 5000)) =>
                /\ errors'["chunkFailed"] = errors["chunkFailed"]
                /\ errors'["incomingFailed"] = errors["incomingFailed"]
                /\ DOMAIN receivedChunks' = DOMAIN receivedChunks \cup { m.chunkIndex }
                /\ receivedChunks'[m.chunkIndex] = B64Decode(m.data)
                /\ \A k \in DOMAIN receivedChunks \ { m.chunkIndex } :
                        receivedChunks'[k] = receivedChunks[k]
                /\ UNCHANGED << chanVars, roleVars >>]_vars

\* C26 witness: of a transfer of two chunks, index 0 was received twice and
\* holds the bytes of the second envelope, and index 2 was received and
\* stored; no error was raised.
C26_Witness ==
    /\ FirstSession
    /\ expectedTotalChunks = 2
    /\ delivered = 4
    /\ DOMAIN receivedChunks = { 0, 2 }
    /\ receivedChunks[0] = PayloadB
    /\ receivedChunks[2] = PayloadA
    /\ receivingProgress = 3
    /\ \A k \in ErrorKinds : errors[k] = 0


\* C27: the reassembly map is complete when it is full: whenever the chunk
\* map holds expectedTotalChunks entries, or receivingProgress has reached
\* expectedTotalChunks, its keys are exactly 0..expectedTotalChunks-1.
C27_FullMapIsComplete ==
    (/\ expectedTotalChunks > 0
     /\ \/ Cardinality(DOMAIN receivedChunks) = expectedTotalChunks
        \/ receivingProgress = expectedTotalChunks)
        => DOMAIN receivedChunks = 0..(expectedTotalChunks - 1)

\* C27 witness: a transfer of two chunks whose map holds two entries and
\* whose count is two, with chunk 1 missing.
C27_Witness ==
    /\ FirstSession
    /\ expectedTotalChunks = 2
    /\ Cardinality(DOMAIN receivedChunks) = 2
    /\ receivingProgress = 2
    /\ 1 \notin DOMAIN receivedChunks
    /\ delivered = 3


\* C28: a metadata envelope without its metadata or totalChunks, and a
\* chunk envelope without its index or data, is discarded with the receiver
\* state unchanged; a metadata envelope that carries its metadata and its
\* totalChunks, 0 included, is handled: the metadata and the chunk count
\* become the receiver's.
C28_IncompleteEnvelopeDiscarded ==
    [][\A c \in Channels, m \in InMetadatas \cup InChunks :
            OnMessage(c, m, 5000) =>
                /\ (\/ m.type = "metadata" /\ ~m.hasMetadata
                    \/ m.type = "chunk" /\ (m.chunkIndex < 0 \/ m.data = <<>>))
                        => UNCHANGED << recvVars, sinkVars, readyCount, errors >>
                /\ (m.type = "metadata" /\ m.hasMetadata)
                        => /\ movieMetadata' = m.metadata
                           /\ expectedTotalChunks' = m.totalChunks]_vars


\* C29: each block handed to the sink is between 1 and 5 chunks with
\* consecutive indices starting at the cursor, in ascending order with the
\* bytes held in the chunk map, and the cursor advances by the number of
\* chunks in the block.
C29_BlockIsBoundedRun ==
    [][Len(appended') > Len(appended) =>
            LET n == Len(appended') - Len(appended)
            IN  /\ n \in 1..5
                /\ SubSeq(appended', 1, Len(appended)) = appended
                /\ \A k \in 1..n :
                        /\ appended'[Len(appended) + k].index = bufferedChunkIndex + k - 1
                        /\ (bufferedChunkIndex + k - 1) \in DOMAIN receivedChunks'
                        /\ appended'[Len(appended) + k].bytes =
                                receivedChunks'[bufferedChunkIndex + k - 1]
                /\ bufferedChunkIndex' = bufferedChunkIndex + n]_vars

\* C29 witness: chunks 1 to 6 were held when chunk 0 arrived; the first
\* append took chunks 0 to 4, its updateend fed chunks 5 and 6, and the
\* cursor is at 7.
C29_Witness ==
    /\ delivered = 1
    /\ Len(appended) = 7
    /\ \A k \in 1..7 : appended[k].index = k - 1
    /\ \A k \in 2..7 : appended[k].bytes = HeldBytes(k - 1)
    /\ bufferedChunkIndex = 7
    /\ updating
    /\ faults = 0


\* C30: the role is fixed for the session's lifetime: while the service
\* holds a channel, no channel, envelope or timer event (a step that is not
\* a call of the application) changes isMaster.
C30_RoleFixed ==
    [][(dataChannel # NULL /\ apiCalls' = apiCalls) => isMaster' = isMaster]_vars

\* C30 witness: the master's first channel is still open and was never
\* closed or cleaned up, its broadcast interval runs, and the arrival of the
\* peer's channel has made the service a follower.
C30_Witness ==
    /\ ~isMaster
    /\ syncInterval
    /\ dataChannel = 2
    /\ readyState[1] = "open"
    /\ readyState[2] = "connecting"
    /\ closeEvents = {}
    /\ lastCall # "cleanup"
    /\ SyncsSent = 0


\* C31: handling a control envelope is a no-op: it changes no field of the
\* sender, the receiver, the feeder or the synchronizer, nothing is sent and
\* no callback is invoked.
C31_ControlIsNoOp ==
    [][\A c \in Channels :
            OnMessage(c, InOther("control"), 5000) =>
                UNCHANGED << chanVars, roleVars, sendVars, schedVars, recvVars,
                             sinkVars, syncVars, videoVars, chunkSize, sent,
                             errors, readyCount, lastCall, apiCalls, faults,
                             xfer, lost >>]_vars

\* C31 witness: a sender in the middle of a transfer, one chunk sent and
\* the pacing timer pending, has handled two control envelopes.
C31_Witness ==
    /\ delivered = 2
    /\ isSending
    /\ sendingProgress = 1
    /\ sendTimers = 1
    /\ Len(sent) = 2
    /\ \A k \in ErrorKinds : errors[k] = 0


\* C32: the received count equals the number of distinct chunk indices
\* stored and never exceeds the expected total, so that the progress
\* reported after a chunk, receivingProgress / expectedTotalChunks, lies in
\* (0, 100] percent.
C32_ReceivedCountIsMapSize ==
    /\ receivingProgress = Cardinality(DOMAIN receivedChunks)
    /\ receivingProgress > 0 =>
            /\ expectedTotalChunks > 0
            /\ receivingProgress <= expectedTotalChunks

\* C32 witness: a transfer of two chunks for which three chunk envelopes
\* were handled, chunk 0 twice: the count is 3, the map holds 2 entries, and
\* the progress reported is 150%.
C32_Witness ==
    /\ FirstSession
    /\ expectedTotalChunks = 2
    /\ DOMAIN receivedChunks = { 0, 1 }
    /\ receivingProgress = 3
    /\ delivered = 4


\* C33: within one transfer the chunks handed to the sink are always
\* chunks 0..cursor-1 in order, each handed once, whatever the order of
\* chunk arrivals, sink completions and failed appends.
C33_SinkHoldsPrefix ==
    /\ Len(appended) = bufferedChunkIndex
    /\ \A k \in 1..Len(appended) :
            /\ appended[k].index = k - 1
            /\ (k - 1) \in DOMAIN receivedChunks

\* C33 witness: chunks 1 to 6 were held when chunk 0 arrived; the sink
\* failed the first append, a second envelope made bufferChunks try again,
\* and chunks 0 to 6 have been handed over in order, each once.
C33_Witness ==
    /\ faults = 1
    /\ errors["appendFailed"] = 1
    /\ delivered = 2
    /\ bufferedChunkIndex = 7
    /\ Len(appended) = 7
    /\ \A k \in 1..7 : appended[k].index = k - 1


\* C34: chunks that arrived before the SourceBuffer existed are fed once it
\* exists, without a further chunk arriving: whenever the SourceBuffer
\* exists and chunk 0 is held, the cursor eventually leaves 0.
C34_HeldChunksFedWhenReady ==
    (sourceBuffer /\ 0 \in DOMAIN receivedChunks) ~> (bufferedChunkIndex > 0)

\* C34 witness: chunk 0 arrived before the MediaSource opened; the
\* SourceBuffer now exists, no append was made or is pending and the cursor
\* is at 0.
C34_Witness ==
    /\ sourceBuffer
    /\ msState = "open"
    /\ DOMAIN receivedChunks = { 0 }
    /\ delivered = 2
    /\ bufferedChunkIndex = 0
    /\ appended = <<>>
    /\ ~isBuffering
    /\ ~updating


\* C35: a follower does not start or seek playback on a sync sample before
\* its session is ready: while playbackStarted is false, no step of a
\* follower changes the position or the paused flag of the video.
C35_NoSyncBeforeReady ==
    [][(~isMaster /\ ~playbackStarted) => UNCHANGED videoVars]_vars

\* C35 witness: a follower that has received no metadata has handled one
\* sync sample, has sought to the sample's adjusted position and plays.
C35_Witness ==
    /\ ~isMaster
    /\ ~playbackStarted
    /\ movieMetadata = NoMeta
    /\ readyCount = 0
    /\ delivered = 1
    /\ videoTime = 100400
    /\ ~videoPaused



\* C36: at most one sync broadcast interval runs at any time: the service
\* holds a handle exactly when one interval runs, also after several
\* transfers completed and several play() promises resolved.
C36_AtMostOneBroadcastTimer ==
    /\ intervals <= 1
    /\ intervals = (IF syncInterval THEN 1 ELSE 0)

\* C36 witness: a master has completed two transfers, both settle timers
\* have fired and both play() promises are settled, and one interval runs.
C36_Witness ==
    /\ isMaster
    /\ xfer = 2
    /\ ~isSending
    /\ playTimers = 0
    /\ playPromises = 0
    /\ videoPaused = FALSE
    /\ syncInterval
    /\ intervals = 1



\* C37: a room pairs two distinct sockets, whatever join, new-chat and
\* disconnect events the clients emit.
C37_RoomPairsDistinctSockets == \A r \in rooms : r.user1 # r.user2


\* C37 witness: a socket that emitted join twice is both users of a room.
C37_Witness ==
    \E r \in rooms :
        /\ r.user1 = r.user2
        /\ conn[r.user1] = "open"
        /\ handlers[r.user1] = 2


\* The number of positions of the queue that hold the id.
InQueue(id) == Cardinality({ i \in 1..Len(queue) : queue[i] = id })

\* C38: each socket id is at most once in the waiting queue, is a member of
\* at most one room, and is not in the queue while it is a member of a room.
C38_QueueAndRoomsDisjoint ==
    \A s \in Sockets :
        /\ InQueue(s) <= 1
        /\ Cardinality(RoomsOf(rooms, s)) <= 1
        /\ RoomsOf(rooms, s) # {} => InQueue(s) = 0



\* The users in the waiting queue: the ids of the queue that users.find
\* finds.
KnownWaiting ==
    { queue[i] : i \in 1..Len(queue) } \cap { users[i] : i \in 1..Len(users) }

\* C39: when clearQueue returns, in addUser or in a deferred call, fewer
\* than two users are left in the waiting queue, also when the queue held
\* ids of users that have left.
C39_ClearQueueLeavesNoPair ==
    [][((\E s \in Sockets : Join(s)) \/ ClearQueueTimer)
           => Cardinality(KnownWaiting') < 2]_vars


\* C38 witness: a socket is a member of two rooms with two other sockets.
C38_Witness ==
    \E s \in Sockets : \E a, b \in RoomsOf(rooms, s) :
        /\ a.roomId # b.roomId
        /\ a.user1 # a.user2
        /\ b.user1 # b.user2
        /\ conn[s] = "open"

\* C39 witness: addUser has returned for the socket at the end of the
\* queue, and that socket and another user are both still waiting.
C39_Witness ==
    /\ Len(queue) = 2
    /\ Cardinality(KnownWaiting) = 2
    /\ emitted = << [to |-> queue[2], event |-> "lobby"] >>
    /\ handlers[queue[2]] = 1
    /\ newChats = 0
    /\ \A i \in 1..2 : conn[queue[i]] = "open"


\* C40: a relayed event (offer, answer, ICE candidate, chat or movie
\* message) for a room causes an emit only when its sender is a member of
\* the room, and then the event goes to the other member (the chat
\* confirmation "message-sent" to the sender).
C40_RelayOnlyBetweenMembers ==
    [][\A s \in Sockets, event \in RelayEvents \cup { "send-message" },
          roomId \in RoomIds :
          (Relay(s, event, roomId) /\ emitted' # <<>>) =>
              \E r \in rooms :
                  /\ r.roomId = roomId
                  /\ s \in { r.user1, r.user2 }
                  /\ \A i \in 1..Len(emitted') :
                        emitted'[i].to =
                            IF emitted'[i].event = "message-sent"
                            THEN s
                            ELSE ReceivingUser(r, s)]_vars

\* C40 witness: a socket that is waiting in the queue, a member of no room,
\* has sent an offer with the id of a room of two other sockets, and the
\* offer was emitted to a member of that room.
C40_Witness ==
    /\ Len(emitted) = 1
    /\ emitted[1].event = "offer"
    /\ \E s \in Sockets :
          /\ conn[s] = "open"
          /\ handlers[s] = 1
          /\ queue = << s >>
          /\ RoomsOf(rooms, s) = {}
          /\ rooms # {}
          /\ \A r \in rooms : r.user1 # r.user2
          /\ \A t \in Sockets : t # s => (handlers[t] <= 1 /\ conn[t] # "closed")

====
